---- MODULE Spec2Model ----
(***************************************************************************)
(* A model of the basic-agent tool-invocation and safety-confirmation      *)
(* pipeline: TerminalTool (src/src/tools/terminal.py), the prompt-based    *)
(* tool-call extractor and the dispatch loop (src/src/agent.py) and the    *)
(* short-term memory of MemoryManager (src/src/memory.py).                 *)
(*                                                                         *)
(* Python strings are TLA+ strings; a character is a string of length 1.   *)
(***************************************************************************)
EXTENDS Integers, Sequences, FiniteSets, TLC

(***************************************************************************)
(* Python str primitives.                                                  *)
(***************************************************************************)
\* s[i:i+1] with 1-based i: the character at i, "" outside the string
Char(s, i) == IF i >= 1 /\ i <= Len(s) THEN SubSeq(s, i, i) ELSE ""

\* str.isspace for the characters the model uses: Python's \s and strip().
WS == {" ", "\t", "\n", "\r", "\f"}

UpperAlpha == "ABCDEFGHIJKLMNOPQRSTUVWXYZ"
LowerAlpha == "abcdefghijklmnopqrstuvwxyz"
Digits == "0123456789"

InStr(c, alphabet) == \E i \in 1..Len(alphabet) : Char(alphabet, i) = c

LowerChar(c) ==
    IF InStr(c, UpperAlpha)
    THEN Char(LowerAlpha, CHOOSE i \in 1..Len(UpperAlpha) : Char(UpperAlpha, i) = c)
    ELSE c

UpperChar(c) ==
    IF InStr(c, LowerAlpha)
    THEN Char(UpperAlpha, CHOOSE i \in 1..Len(LowerAlpha) : Char(LowerAlpha, i) = c)
    ELSE c

\* str.lower()
RECURSIVE Lower(_)
Lower(s) == IF s = "" THEN "" ELSE LowerChar(Head(s)) \o Lower(Tail(s))

\* str.lstrip() / str.rstrip() / str.strip()
RECURSIVE LStrip(_)
LStrip(s) == IF s = "" THEN "" ELSE IF Head(s) \in WS THEN LStrip(Tail(s)) ELSE s

RECURSIVE RStrip(_)
RStrip(s) ==
    IF s = "" THEN ""
    ELSE IF Char(s, Len(s)) \in WS THEN RStrip(SubSeq(s, 1, Len(s) - 1)) ELSE s

Strip(s) == RStrip(LStrip(s))

\* s[i:i+len(pat)] == pat
IsAt(s, i, pat) == i >= 1 /\ i + Len(pat) - 1 <= Len(s) /\ SubSeq(s, i, i + Len(pat) - 1) = pat

\* pat in s
Contains(s, pat) == \E i \in 1..(Len(s) - Len(pat) + 1) : IsAt(s, i, pat)

\* str.startswith
StartsWith(s, pat) == IsAt(s, 1, pat)

\* Regular-expression character classes \s, \d, \w and . (no DOTALL).
IsSpace(c) == c \in WS
IsDigit(c) == InStr(c, Digits)
IsWord(c) == InStr(c, UpperAlpha) \/ InStr(c, LowerAlpha) \/ InStr(c, Digits) \/ c = "_"
IsDot(c) == c # "\n"

\* every character of s[i..j] (1-based, inclusive) satisfies the class
AllSpace(s, i, j) == \A k \in i..j : IsSpace(Char(s, k))
AllDot(s, i, j) == \A k \in i..j : IsDot(Char(s, k))


(***************************************************************************)
(* Bounds of the model.                                                    *)
(***************************************************************************)
\* input() calls answered during one TerminalTool.execute call
MaxPrompts == 2

\* MemoryManager.__init__: the default short_term_cap
DefaultCap == 10240

(***************************************************************************)
(* Results of a call: a returned string or a raised exception.             *)
(***************************************************************************)
NoResult == [kind |-> "none", exc |-> "", value |-> ""]
Return(v) == [kind |-> "return", exc |-> "", value |-> v]
Raise(e, msg) == [kind |-> "raise", exc |-> e, value |-> msg]

\* exceptions.py: every exception of the framework derives from AgentError,
\* which derives from Exception; KeyboardInterrupt does not.
AgentErrorClasses ==
    {"AgentError", "ConfigurationError", "ModelError", "ToolError", "MemoryError",
     "UserCancellationError"}
IsException(e) == e # "KeyboardInterrupt"

(***************************************************************************)
(* The console: one input() call returns a line or raises.                 *)
(***************************************************************************)
Line(t) == [kind |-> "line", text |-> t]
EOFError == [kind |-> "EOFError", text |-> ""]
KeyboardInterrupt == [kind |-> "KeyboardInterrupt", text |-> ""]
NoInput == [kind |-> "none", text |-> ""]

\* Lines typed at the prompts of TerminalTool.
PromptLines == {" Y ", "No", "details", "what", "Safe", "p", " C "}

PromptInputs == {Line(t) : t \in PromptLines} \cup {EOFError, KeyboardInterrupt}

(***************************************************************************)
(* TerminalTool: terminal.py                                               *)
(***************************************************************************)
destructive_patterns ==
    <<"rm ", "rm\\t", "rmdir", "mv ", "mv\\t", "dd ", "dd\\t", "shred", "wipe", "format",
      "mkfs", "> ", ">\\t", "truncate", "chown", "chmod 000", "chmod 777">>

is_destructive_command(command) ==
    LET command_lower == Strip(Lower(command))
    IN  \E i \in DOMAIN destructive_patterns : Contains(command_lower, destructive_patterns[i])

high_risk ==
    <<"rm -rf /", "rm -rf *", "dd if=", "mkfs", "format", "shred", "chmod 777", "chmod 000">>

medium_risk == <<"rm -rf", "rm -r", "rmdir", "mv ", "rm ">>

\* A variant of classify_command_risk that looks for the medium patterns first.
classify_command_risk_medium_first(command) ==
    LET command_lower == Lower(command)
    IN  IF \E i \in DOMAIN medium_risk : Contains(command_lower, medium_risk[i]) THEN "medium"
        ELSE IF \E i \in DOMAIN high_risk : Contains(command_lower, high_risk[i]) THEN "high"
        ELSE "low"

classify_command_risk(command) ==
    LET command_lower == Lower(command)
    IN  IF \E i \in DOMAIN high_risk : Contains(command_lower, high_risk[i]) THEN "high"
        ELSE IF \E i \in DOMAIN medium_risk : Contains(command_lower, medium_risk[i])
             THEN "medium"
        ELSE "low"

Quotes == {"\"", "'"}

\* re.search(r'find\s+([^\s]+).*?-name\s+["\']([^"\']+)["\'].*?-mtime\s+\+(\d+)', command)
\* finds a match: positions of the pieces of the pattern exist in the command.
find_match(command) ==
    LET s == command
        n == Len(command)
    IN  \E i \in 1..n :
          /\ IsAt(s, i, "find")
          /\ \E a \in (i + 5)..n :                  \* group 1 starts at a
               /\ AllSpace(s, i + 4, a - 1)
               /\ \E b \in a..n :                   \* group 1 ends at b
                    /\ \A k \in a..b : ~IsSpace(Char(s, k))
                    /\ \E m \in (b + 1)..n :        \* "-name" starts at m
                         /\ AllDot(s, b + 1, m - 1)
                         /\ IsAt(s, m, "-name")
                         /\ \E q \in (m + 6)..n :   \* opening quote at q
                              /\ AllSpace(s, m + 5, q - 1)
                              /\ Char(s, q) \in Quotes
                              /\ \E e \in (q + 2)..n :   \* closing quote at e
                                   /\ \A k \in (q + 1)..(e - 1) : Char(s, k) \notin Quotes
                                   /\ Char(s, e) \in Quotes
                                   /\ \E t \in (e + 1)..n :   \* "-mtime" starts at t
                                        /\ AllDot(s, e + 1, t - 1)
                                        /\ IsAt(s, t, "-mtime")
                                        /\ \E p \in (t + 7)..n :   \* "+" at p
                                             /\ AllSpace(s, t + 6, p - 1)
                                             /\ Char(s, p) = "+"
                                             /\ p + 1 <= n
                                             /\ IsDigit(Char(s, p + 1))

\* _handle_destructive_command, line 138: the find+rm shape
is_find_rm(command) ==
    Contains(command, "find") /\ Contains(command, "rm") /\ Contains(command, "-exec")

\* A variant of get_user_confirmation that accepts "yes" only, not "y".
get_user_confirmation_yes_only(inp) ==
    IF inp.kind # "line" THEN "False"
    ELSE LET response == Strip(Lower(inp.text))
         IN  IF response \in {"yes"} THEN "True"
             ELSE IF response \in {"no", "n"} THEN "False"
             ELSE IF response \in {"details", "d"} THEN "details"
             ELSE "retry"

\* One pass of the loop of _get_user_confirmation on one input() outcome:
\* "True"/"False" are the returned value, "details" and "retry" loop again.
get_user_confirmation(inp) ==
    IF inp.kind # "line" THEN "False"
    ELSE LET response == Strip(Lower(inp.text))
         IN  IF response \in {"yes", "y"} THEN "True"
             ELSE IF response \in {"no", "n"} THEN "False"
             ELSE IF response \in {"details", "d"} THEN "details"
             ELSE "retry"

\* One pass of the loop of _handle_find_rm_pattern (lines 165-183) on one
\* input() outcome, before the enclosing try/except of lines 150/184.
find_rm_choice(inp) ==
    IF inp.kind # "line" THEN "raise"
    ELSE LET choice == Strip(Lower(inp.text))
         IN  IF choice \in {"s", "safer", "safe"} THEN "safe"
             ELSE IF choice \in {"p", "proceed", "original"} THEN "break"
             ELSE IF choice \in {"c", "cancel"} THEN "raise"
             ELSE "retry"

\* The outcomes of subprocess.run in _execute_command; "interrupt" is Ctrl-C
\* while the command runs.
ShellEnv == {"output", "silent", "nonzero", "timeout", "oserror", "interrupt"}

\* A variant of _execute_command without the handler of TimeoutExpired and of
\* the other exceptions.
execute_command_unhandled(command, env) ==
    CASE env = "output" -> Return("out")
      [] env = "silent" -> Return("Command executed successfully (no output)")
      [] env = "nonzero" -> Return("Command failed (exit code 1)")
      [] env = "timeout" -> Raise("TimeoutExpired", "timed out after 30 seconds")
      [] env = "interrupt" -> Raise("KeyboardInterrupt", "")
      [] OTHER -> Raise("OSError", "err")

execute_command(command, env) ==
    CASE env = "output" -> Return("out")
      [] env = "silent" -> Return("Command executed successfully (no output)")
      [] env = "nonzero" -> Return("Command failed (exit code 1)")
      [] env = "timeout" ->
            Raise("ToolError", "Command '" \o command \o "' timed out after 30 seconds")
      [] env = "interrupt" -> Raise("KeyboardInterrupt", "")
      [] OTHER -> Raise("ToolError", "Error executing command '" \o command \o "': err")

\* The outcomes of safe_delete_files (file_operations.py), which returns a
\* status message or raises ToolError.
TrashEnv == {"moved", "nofiles", "error"}

safe_delete_files(env) ==
    CASE env = "moved" -> Return("Moved 1 file(s) to Trash")
      [] env = "nofiles" -> Return("No files found matching pattern")
      [] OTHER -> Raise("ToolError", "Error moving files to trash: err")

(***************************************************************************)
(* safe_delete_files on a file system: file_operations.py                  *)
(***************************************************************************)
\* str(n)
RECURSIVE Str(_)
Str(n) == IF n < 10 THEN Char("0123456789", n + 1)
          ELSE Str(n \div 10) \o Char("0123456789", (n % 10) + 1)

\* s.split(sep)
RECURSIVE SplitOn(_, _)
SplitOn(s, sep) ==
    LET at == {i \in 1..Len(s) : IsAt(s, i, sep)}
    IN  IF at = {} THEN <<s>>
        ELSE LET i == CHOOSE j \in at : \A k \in at : j <= k
             IN  <<SubSeq(s, 1, i - 1)>> \o SplitOn(SubSeq(s, i + Len(sep), Len(s)), sep)

\* The index of the last occurrence of a character, 0 when there is none.
LastIndex(s, c) ==
    LET at == {i \in 1..Len(s) : Char(s, i) = c}
    IN  IF at = {} THEN 0 ELSE CHOOSE j \in at : \A k \in at : k <= j

\* Path(p).name, Path(name).suffix and Path(name).stem
PathName(p) == SubSeq(p, LastIndex(p, "/") + 1, Len(p))
PathSuffix(name) ==
    LET dot == LastIndex(name, ".")
    IN  IF dot > 1 /\ dot < Len(name) THEN SubSeq(name, dot, Len(name)) ELSE ""
PathStem(name) == SubSeq(name, 1, Len(name) - Len(PathSuffix(name)))

\* What find printed: a line for each matched file.
RECURSIVE FindOutput(_)
FindOutput(matched) ==
    IF matched = <<>> THEN "" ELSE Head(matched) \o "\n" \o FindOutput(Tail(matched))

\* Lines 32-33: the list of files made of the output of find.  The separator
\* of the source is "\\n", a backslash and the letter n.
found_files(stdout) ==
    LET parts == IF Strip(stdout) # "" THEN SplitOn(Strip(stdout), "\\n") ELSE <<>>
    IN  SelectSeq(parts, LAMBDA f : Strip(f) # "")

\* An entry of the trash directory: its name there and the file it was.
TrashEntry(name, from) == [name |-> name, from |-> from]
TrashNames(trash) == {e.name : e \in trash}

\* Lines 85-90: the names tried after the file's own name is taken.
RECURSIVE numbered_target(_, _, _)
numbered_target(filename, names, counter) ==
    LET target == PathStem(filename) \o "_" \o Str(counter) \o PathSuffix(filename)
    IN  IF target \in names THEN numbered_target(filename, names, counter + 1) ELSE target

\* Lines 81-90: the free name a file is moved to.
target_path(filename, names) ==
    IF filename \in names THEN numbered_target(filename, names, 1) ELSE filename

\* The file is there and the move of it is permitted.
Movable(file_path, w) == file_path \in w.disk /\ file_path \notin w.unmovable

\* The file leaves its path and becomes an entry of the trash under a name,
\* replacing an entry of that name.
Relocate(file_path, name, w) ==
    [w EXCEPT !.disk = @ \ {file_path},
              !.trash = {e \in @ : e.name # name} \cup {TrashEntry(name, file_path)}]

\* _move_to_trash_linux, lines 78-97: w is the file system, with the count so far.
RECURSIVE move_to_trash_linux(_, _)
move_to_trash_linux(files, w) ==
    IF files = <<>> THEN w
    ELSE LET file_path == Head(files)
             target == target_path(PathName(file_path), TrashNames(w.trash))
         IN  IF Movable(file_path, w)
             THEN move_to_trash_linux(Tail(files),
                      [Relocate(file_path, target, w) EXCEPT !.count = @ + 1])
             ELSE move_to_trash_linux(Tail(files), w)

\* _move_to_trash_macos, lines 59-61: the trash utility is run on each file,
\* its exit status is not looked at, and len(files) is returned.  The utility
\* keeps the entries of the trash.
RECURSIVE trash_utility(_, _)
trash_utility(files, w) ==
    IF files = <<>> THEN w
    ELSE LET file_path == Head(files)
             target == target_path(PathName(file_path), TrashNames(w.trash))
             after == IF Movable(file_path, w) THEN Relocate(file_path, target, w) ELSE w
         IN  trash_utility(Tail(files), [after EXCEPT !.count = @ + 1])

\* _move_to_trash_macos, lines 64-70: mv 'file' ~/.Trash/ replaces an entry of
\* the file's name; the file is counted when mv exits with 0.
RECURSIVE mv_to_trash(_, _)
mv_to_trash(files, w) ==
    IF files = <<>> THEN w
    ELSE LET file_path == Head(files)
         IN  IF Movable(file_path, w)
             THEN mv_to_trash(Tail(files),
                      [Relocate(file_path, PathName(file_path), w) EXCEPT !.count = @ + 1])
             ELSE mv_to_trash(Tail(files), w)

\* _move_to_trash_macos
move_to_trash_macos(files, w) ==
    IF w.utility THEN trash_utility(files, w) ELSE mv_to_trash(files, w)

\* The outcomes of the find command: it lists the matches; it exits with a
\* status other than 0; it runs into the timeout.
FindEnv == {"listed", "nonzero", "timeout"}

\* safe_delete_files with its environment: the files find matched, and the
\* file system w (disk, trash, the files that cannot be moved, the platform
\* and whether the trash utility is installed).  The result and the file
\* system afterwards.
safe_delete_files_on(matched, find, w) ==
    LET files == found_files(FindOutput(matched))
        start == [w EXCEPT !.count = 0]
        after == IF w.platform = "Darwin" THEN move_to_trash_macos(files, start)
                 ELSE move_to_trash_linux(files, start)
    IN  IF find = "timeout"
        THEN [result |-> Raise("ToolError", "Error moving files to trash: err"), w |-> w]
        ELSE IF find = "nonzero" \/ files = <<>>
        THEN [result |-> Return("No files found matching pattern"), w |-> w]
        ELSE [result |-> Return("Moved " \o Str(after.count) \o " file(s) to Trash"),
              w |-> after]

\* What one step of TerminalTool.execute leaves behind: where the call stands
\* (pc "offer": blocked in input() of the safer-alternative prompt; "confirm":
\* blocked in input() of the confirmation prompt; "done": returned or raised),
\* the risk level printed, the result, whether _execute_command ran and
\* whether _safe_delete_files ran.
Step(pc, risk, result, ran, trashed) ==
    [pc |-> pc, risk |-> risk, result |-> result, ran |-> ran, trashed |-> trashed]

UserCancelled == Raise("UserCancellationError", "Operation cancelled by user.")

\* Lines 141-143 and 188-189 up to the first input() of _get_user_confirmation.
confirmation_prompt(command, trashed) ==
    Step("confirm", classify_command_risk(command), NoResult, FALSE, trashed)

\* A variant of confirm_input whose final else branch proceeds instead of asking again.
confirm_input_else_proceeds(command, risk, inp, env) ==
    LET confirmed == get_user_confirmation(inp)
    IN  CASE confirmed \in {"True", "retry"} ->
               Step("done", risk, execute_command(command, env), TRUE, FALSE)
          [] confirmed = "False" -> Step("done", risk, UserCancelled, FALSE, FALSE)
          [] OTHER -> Step("confirm", risk, NoResult, FALSE, FALSE)

\* A variant of confirm_input in which asking for the details cancels.
confirm_input_details_cancels(command, risk, inp, env) ==
    LET confirmed == get_user_confirmation(inp)
    IN  CASE confirmed = "True" -> Step("done", risk, execute_command(command, env), TRUE, FALSE)
          [] confirmed \in {"False", "details"} -> Step("done", risk, UserCancelled, FALSE, FALSE)
          [] OTHER -> Step("confirm", risk, NoResult, FALSE, FALSE)

\* Lines 143-146 and 189-192: one input() outcome at the confirmation prompt.
confirm_input(command, risk, inp, env) ==
    LET confirmed == get_user_confirmation(inp)
    IN  CASE confirmed = "True" -> Step("done", risk, execute_command(command, env), TRUE, FALSE)
          [] confirmed = "False" -> Step("done", risk, UserCancelled, FALSE, FALSE)
          [] OTHER -> Step("confirm", risk, NoResult, FALSE, FALSE)

\* Line 184: "except Exception: pass" around the whole safer-alternative block.
except_Exception_pass(exc) == IsException(exc)

\* Lines 165-185: one input() outcome at the safer-alternative prompt.
find_rm_input(command, inp, tenv) ==
    LET choice == find_rm_choice(inp)
        deleted == safe_delete_files(tenv)
    IN  CASE choice = "safe" ->
               IF deleted.kind = "raise"
               THEN IF except_Exception_pass(deleted.exc)
                    THEN confirmation_prompt(command, TRUE)
                    ELSE Step("done", "", deleted, FALSE, TRUE)
               ELSE Step("done", "", deleted, FALSE, TRUE)
          [] choice = "break" -> confirmation_prompt(command, FALSE)
          [] choice = "raise" ->
               IF except_Exception_pass("UserCancellationError")
               THEN confirmation_prompt(command, FALSE)
               ELSE Step("done", "", UserCancelled, FALSE, FALSE)
          [] OTHER -> Step("offer", "", NoResult, FALSE, FALSE)

\* Lines 148-163: _handle_find_rm_pattern up to its first input().
handle_find_rm_pattern(command) ==
    IF find_match(command)
    THEN Step("offer", "", NoResult, FALSE, FALSE)
    ELSE confirmation_prompt(command, FALSE)

\* Lines 135-143: _handle_destructive_command up to the first input().
handle_destructive_command(command) ==
    IF is_find_rm(command)
    THEN handle_find_rm_pattern(command)
    ELSE confirmation_prompt(command, FALSE)

\* A variant of execute that sends every command to the confirmation flow.
execute_confirms_everything(command, env) == handle_destructive_command(command)

\* Lines 21-37: TerminalTool.execute up to the first input() or to its end.
execute(command, env) ==
    IF is_destructive_command(command)
    THEN handle_destructive_command(command)
    ELSE Step("done", "", execute_command(command, env), TRUE, FALSE)

(***************************************************************************)
(* MemoryManager: memory.py                                                *)
(***************************************************************************)
\* A dict is the sequence of its <<key, value>> items in insertion order.
EmptyDict == <<>>

DictHas(d, k) == \E i \in DOMAIN d : d[i][1] = k

DictSet(d, k, v) ==
    IF DictHas(d, k)
    THEN [i \in DOMAIN d |-> IF d[i][1] = k THEN <<k, v>> ELSE d[i]]
    ELSE Append(d, <<k, v>>)

\* str.title(): a cased character is upper-cased after an uncased one and
\* lower-cased after a cased one.
IsCased(c) == InStr(c, UpperAlpha) \/ InStr(c, LowerAlpha)

RECURSIVE TitleFrom(_, _)
TitleFrom(s, prevCased) ==
    IF s = "" THEN ""
    ELSE (IF prevCased THEN LowerChar(Head(s)) ELSE UpperChar(Head(s)))
         \o TitleFrom(Tail(s), IsCased(Head(s)))

Title(s) == TitleFrom(s, FALSE)

\* json: the escapes of a string of the model's characters.
RECURSIVE JsonEscape(_)
JsonEscape(s) ==
    IF s = "" THEN ""
    ELSE (CASE Head(s) = "\"" -> "\\\""
            [] Head(s) = "\\" -> "\\\\"
            [] Head(s) = "\n" -> "\\n"
            [] Head(s) = "\t" -> "\\t"
            [] Head(s) = "\r" -> "\\r"
            [] Head(s) = "\f" -> "\\f"
            [] OTHER -> Head(s))
         \o JsonEscape(Tail(s))

JsonItem(item) == "\"" \o JsonEscape(item[1]) \o "\": \"" \o JsonEscape(item[2]) \o "\""

RECURSIVE JsonItems(_, _)
JsonItems(d, sep) ==
    IF d = <<>> THEN ""
    ELSE IF Len(d) = 1 THEN JsonItem(d[1])
    ELSE JsonItem(d[1]) \o sep \o JsonItems(Tail(d), sep)

\* json.dumps(d)
json_dumps(d) == "{" \o JsonItems(d, ", ") \o "}"

\* json.dump(d, f, indent=2, ensure_ascii=False)
json_dump_indent2(d) ==
    IF d = <<>> THEN "{}" ELSE "{\n  " \o JsonItems(d, ",\n  ") \o "\n}"

\* The long-term file: absent, or present with a text.
NoFile == [exists |-> FALSE, text |-> ""]
File(text) == [exists |-> TRUE, text |-> text]

\* The outcomes of writing the long-term file: written; refused before the
\* file is opened; failed after open("w") truncated it.
FileEnv == {"ok", "denied", "ioerror"}

\* save_long_term_memory: the file afterwards and whether MemoryError is raised.
save_long_term_memory(ltm, file, env) ==
    CASE env = "ok" -> [file |-> File(json_dump_indent2(ltm)), raised |-> FALSE]
      [] env = "denied" -> [file |-> file, raised |-> TRUE]
      [] OTHER -> [file |-> File(""), raised |-> TRUE]

\* json.loads: the whitespace between tokens.
JsonWs == {" ", "\t", "\n", "\r"}

RECURSIVE SkipWs(_, _)
SkipWs(s, i) == IF Char(s, i) \in JsonWs THEN SkipWs(s, i + 1) ELSE i

\* A variant of JsonUnescape that keeps the character after the backslash.
JsonUnescape_verbatim(e) == e

\* json.loads: the character an escape sequence stands for ("" when the
\* sequence is not one of JSON's).  "\b" and "\uXXXX" are JSON's too; no text
\* of the model holds them.
JsonUnescape(e) ==
    CASE e = "\"" -> "\""
      [] e = "\\" -> "\\"
      [] e = "/" -> "/"
      [] e = "n" -> "\n"
      [] e = "t" -> "\t"
      [] e = "r" -> "\r"
      [] e = "f" -> "\f"
      [] OTHER -> ""

\* json.loads raised JSONDecodeError.
JSONDecodeError == [ok |-> FALSE, value |-> <<>>, next |-> 0]

\* json.loads: the body of a string, from just after its opening quote.  A raw
\* control character inside a string is an error.
RECURSIVE ScanString(_, _, _)
ScanString(s, i, acc) ==
    LET c == Char(s, i)
    IN  IF c = "" THEN JSONDecodeError
        ELSE IF c = "\"" THEN [ok |-> TRUE, value |-> acc, next |-> i + 1]
        ELSE IF c = "\\"
        THEN IF JsonUnescape(Char(s, i + 1)) = "" THEN JSONDecodeError
             ELSE ScanString(s, i + 2, acc \o JsonUnescape(Char(s, i + 1)))
        ELSE IF c \in {"\n", "\t", "\r", "\f"} THEN JSONDecodeError
        ELSE ScanString(s, i + 1, acc \o c)

\* json.loads: the members of an object, from the opening quote of a key, for
\* objects whose values are strings (the only values the store is given).
RECURSIVE ParseMembers(_, _, _)
ParseMembers(s, i, acc) ==
    IF Char(s, i) # "\"" THEN JSONDecodeError
    ELSE LET key == ScanString(s, i + 1, "")
             colon == SkipWs(s, key.next)
             quote == SkipWs(s, colon + 1)
         IN  IF ~key.ok \/ Char(s, colon) # ":" \/ Char(s, quote) # "\""
             THEN JSONDecodeError
             ELSE LET val == ScanString(s, quote + 1, "")
                      after == SkipWs(s, val.next)
                  IN  IF ~val.ok THEN JSONDecodeError
                      ELSE IF Char(s, after) = ","
                      THEN ParseMembers(s, SkipWs(s, after + 1),
                                        DictSet(acc, key.value, val.value))
                      ELSE IF Char(s, after) = "}"
                      THEN [ok |-> TRUE,
                            value |-> DictSet(acc, key.value, val.value),
                            next |-> after + 1]
                      ELSE JSONDecodeError

\* json.loads(content) of a text that is an object of strings or is not JSON.
json_loads(content) ==
    LET open == SkipWs(content, 1)
        first == SkipWs(content, open + 1)
        obj == IF Char(content, open) # "{" THEN JSONDecodeError
               ELSE IF Char(content, first) = "}"
               THEN [ok |-> TRUE, value |-> EmptyDict, next |-> first + 1]
               ELSE ParseMembers(content, first, EmptyDict)
    IN  IF obj.ok /\ SkipWs(content, obj.next) > Len(content)
        THEN [ok |-> TRUE, value |-> obj.value]
        ELSE [ok |-> FALSE, value |-> EmptyDict]

\* A variant of _load_long_term_memory that answers a corrupted file with an
\* empty store.
load_long_term_memory_forgiving(file, env) ==
    IF ~file.exists THEN [ltm |-> EmptyDict, raised |-> FALSE]
    ELSE IF env = "denied" THEN [ltm |-> EmptyDict, raised |-> TRUE]
    ELSE [ltm |-> json_loads(Strip(file.text)).value, raised |-> FALSE]

\* _load_long_term_memory: the store loaded, or MemoryError raised (the file
\* cannot be read, or json.loads raised JSONDecodeError).
load_long_term_memory(file, env) ==
    IF ~file.exists THEN [ltm |-> EmptyDict, raised |-> FALSE]
    ELSE IF env = "denied" THEN [ltm |-> EmptyDict, raised |-> TRUE]
    ELSE LET content == Strip(file.text)
         IN  IF content = "" THEN [ltm |-> EmptyDict, raised |-> FALSE]
             ELSE IF json_loads(content).ok
             THEN [ltm |-> json_loads(content).value, raised |-> FALSE]
             ELSE [ltm |-> EmptyDict, raised |-> TRUE]

\* re.search(r"my name is (\\w+)", text): the pattern is "my name is ", a
\* backslash and one or more "w"; the result is group(1) of the leftmost match,
\* "" when there is none.
RECURSIVE SkipW(_, _)
SkipW(s, i) == IF i <= Len(s) /\ Char(s, i) = "w" THEN SkipW(s, i + 1) ELSE i

NamePrefix == "my name is \\"

name_match(text) ==
    LET starts == {i \in 1..Len(text) :
                     IsAt(text, i, NamePrefix) /\ Char(text, i + Len(NamePrefix)) = "w"}
    IN  IF starts = {} THEN ""
        ELSE LET i == CHOOSE j \in starts : \A k \in starts : j <= k
                 g == i + Len(NamePrefix) - 1
             IN  SubSeq(text, g, SkipW(text, g + 1) - 1)

\* _extract_important_info: the store and the file afterwards, and whether
\* save_long_term_memory raised.
extract_important_info(user_input, ltm, file, env) ==
    LET lowered == Lower(user_input)
        name == IF Contains(lowered, "my name is") THEN name_match(lowered) ELSE ""
    IN  IF name # ""
        THEN LET stored == DictSet(ltm, "user_name", Title(name))
                 saved == save_long_term_memory(stored, file, env)
             IN  [ltm |-> stored, file |-> saved.file, raised |-> saved.raised]
        ELSE [ltm |-> ltm, file |-> file, raised |-> FALSE]

\* s[-cap:]
LastChars(s, cap) ==
    IF cap > 0 THEN SubSeq(s, (IF Len(s) > cap THEN Len(s) - cap + 1 ELSE 1), Len(s))
    ELSE IF cap = 0 THEN s
    ELSE SubSeq(s, (IF -cap < Len(s) THEN 1 - cap ELSE Len(s) + 1), Len(s))

\* s[:cap], the slice a truncation from the wrong end would keep
FirstChars(s, cap) == SubSeq(s, 1, IF Len(s) > cap THEN cap ELSE Len(s))

\* A variant of append_interaction that truncates with s[:cap], keeping the oldest text.
append_interaction_keeps_oldest(stm, cap, user_input, agent_response) ==
    LET interaction == "\nUser: " \o user_input \o "\nAgent: " \o agent_response
        appended == stm \o interaction
    IN  IF Len(appended) > cap THEN FirstChars(appended, cap) ELSE appended

\* Lines 73-78 of update_memory: the short-term memory afterwards.
append_interaction(stm, cap, user_input, agent_response) ==
    LET interaction == "\nUser: " \o user_input \o "\nAgent: " \o agent_response
        appended == stm \o interaction
    IN  IF Len(appended) > cap THEN LastChars(appended, cap) ELSE appended

\* A variant of update_memory that leaves the short-term memory as it was.
update_memory_extracts_only(stm, cap, ltm, file, user_input, agent_response, env) ==
    LET extracted == extract_important_info(user_input, ltm, file, env)
    IN  [stm |-> stm,
         ltm |-> extracted.ltm,
         file |-> extracted.file,
         raised |-> extracted.raised]

\* update_memory: both stores and the file afterwards, and whether it raised
\* MemoryError.
update_memory(stm, cap, ltm, file, user_input, agent_response, env) ==
    LET extracted == extract_important_info(user_input, ltm, file, env)
    IN  [stm |-> append_interaction(stm, cap, user_input, agent_response),
         ltm |-> extracted.ltm,
         file |-> extracted.file,
         raised |-> extracted.raised]

\* A variant of get_memory_context that serialises the long-term store even
\* when it is empty.
get_memory_context_always_important(stm, ltm) ==
    LET recent == "Recent conversation: " \o stm
        important == "Important information: " \o json_dumps(ltm)
    IN  IF stm # "" THEN recent \o "\n" \o important ELSE important

\* get_memory_context
get_memory_context(stm, ltm) ==
    LET recent == "Recent conversation: " \o stm
        important == "Important information: " \o json_dumps(ltm)
    IN  IF stm # "" /\ ltm # <<>> THEN recent \o "\n" \o important
        ELSE IF stm # "" THEN recent
        ELSE IF ltm # <<>> THEN important
        ELSE ""

(***************************************************************************)
(* The tool registry and the prompt-based extractor: agent.py, tools/       *)
(***************************************************************************)
\* tools/__init__.py: AVAILABLE_TOOLS
AVAILABLE_TOOLS ==
    {"terminal", "create_file", "read_file", "write_file", "delete_files", "list_files",
     "web_search"}

\* The parameters of each tool's execute(): those without a default, and all.
RequiredParams(tool) ==
    CASE tool = "terminal" -> {"command"}
      [] tool = "create_file" -> {"path"}
      [] tool = "read_file" -> {"path"}
      [] tool = "write_file" -> {"path", "content"}
      [] tool = "delete_files" -> {"path_pattern"}
      [] tool = "list_files" -> {"path"}
      [] OTHER -> {"query"}

AllParams(tool) ==
    CASE tool = "create_file" -> {"path", "content"}
      [] tool = "delete_files" -> {"path_pattern", "older_than_days"}
      [] tool = "list_files" -> {"path", "pattern", "show_hidden"}
      [] OTHER -> RequiredParams(tool)

DictKeys(d) == {d[i][1] : i \in DOMAIN d}
DictGet(d, k) == d[CHOOSE i \in DOMAIN d : d[i][1] = k][2]

\* execute(**args) binds: otherwise Python raises TypeError before the body runs.
Binds(tool, args) ==
    RequiredParams(tool) \subseteq DictKeys(args) /\ DictKeys(args) \subseteq AllParams(tool)

BindError(tool) == Raise("TypeError", tool \o ".execute() got unexpected or missing arguments")

\* The outcomes the filesystem gives a file tool.
ToolEnv == {"ok", "error"}

\* execute(**args) of the tools other than terminal, whose arguments bind.
tool_execute(tool, args, env) ==
    CASE tool = "web_search" ->
            Return("Web search functionality not yet implemented. Your query was: '"
                   \o DictGet(args, "query") \o "'")
      [] tool = "read_file" ->
            IF env = "ok" THEN Return("data")
            ELSE Raise("ToolError", "File " \o DictGet(args, "path") \o " not found")
      [] tool = "create_file" ->
            IF env = "ok" THEN Return("File " \o DictGet(args, "path") \o " created successfully")
            ELSE Raise("ToolError", "Permission denied creating " \o DictGet(args, "path"))
      [] tool = "write_file" ->
            IF env = "ok"
            THEN Return("Content written to " \o DictGet(args, "path") \o " successfully")
            ELSE Raise("ToolError", "Permission denied writing to " \o DictGet(args, "path"))
      [] tool = "delete_files" ->
            IF env = "ok" THEN safe_delete_files("moved")
            ELSE Raise("ToolError",
                       "Error deleting files: " \o safe_delete_files("error").value)
      [] OTHER ->
            IF env = "ok" THEN Return("No files found")
            ELSE Raise("ToolError", "Error listing files: err")

RECURSIVE SkipSpaces(_, _)
SkipSpaces(s, i) == IF IsSpace(Char(s, i)) THEN SkipSpaces(s, i + 1) ELSE i

RECURSIVE SkipWordChars(_, _)
SkipWordChars(s, i) == IF IsWord(Char(s, i)) THEN SkipWordChars(s, i + 1) ELSE i

\* The first index at or after i where s holds c, 0 when there is none.
IndexOf(s, c, i) ==
    LET hits == {e \in i..Len(s) : Char(s, e) = c}
    IN  IF hits = {} THEN 0 ELSE CHOOSE e \in hits : \A f \in hits : e <= f

NoMatch == [ok |-> FALSE, first |-> "", second |-> "", end |-> 0]

\* A match of r'TOOL_CALL:\s*(\w+)\((.*?)\)' that starts at i.
tool_call_match(s, i) ==
    IF ~IsAt(s, i, "TOOL_CALL:") THEN NoMatch
    ELSE LET name == SkipSpaces(s, i + 10)
             open == SkipWordChars(s, name)
             close == IndexOf(s, ")", open + 1)
         IN  IF open > name /\ Char(s, open) = "(" /\ close > 0 /\ AllDot(s, open + 1, close - 1)
             THEN [ok |-> TRUE, first |-> SubSeq(s, name, open - 1),
                   second |-> SubSeq(s, open + 1, close - 1), end |-> close]
             ELSE NoMatch

\* A match of r'(\w+)=(["\'])(.*?)\2' that starts at i.
argument_match(s, i) ==
    LET eq == SkipWordChars(s, i)
        quote == Char(s, eq + 1)
        close == IndexOf(s, quote, eq + 2)
    IN  IF eq > i /\ Char(s, eq) = "=" /\ quote \in Quotes /\ close > 0
           /\ AllDot(s, eq + 2, close - 1)
        THEN [ok |-> TRUE, first |-> SubSeq(s, i, eq - 1),
              second |-> SubSeq(s, eq + 2, close - 1), end |-> close]
        ELSE NoMatch

\* re.findall(tool_call_pattern, response): the <<name, args_str>> pairs.
RECURSIVE findall_tool_calls(_, _)
findall_tool_calls(s, i) ==
    IF i > Len(s) THEN <<>>
    ELSE LET m == tool_call_match(s, i)
         IN  IF m.ok THEN <<<<m.first, m.second>>>> \o findall_tool_calls(s, m.end + 1)
             ELSE findall_tool_calls(s, i + 1)

\* _parse_tool_arguments: re.findall(arg_pattern, args_str) into a dict.
RECURSIVE parse_arguments_from(_, _, _)
parse_arguments_from(s, i, args) ==
    IF i > Len(s) THEN args
    ELSE LET m == argument_match(s, i)
         IN  IF m.ok THEN parse_arguments_from(s, m.end + 1, DictSet(args, m.first, m.second))
             ELSE parse_arguments_from(s, i + 1, args)

parse_tool_arguments(args_str) == parse_arguments_from(args_str, 1, EmptyDict)

\* str.replace(old, ""), old not empty
RECURSIVE RemoveAll(_, _)
RemoveAll(s, old) ==
    IF s = "" THEN ""
    ELSE IF IsAt(s, 1, old) THEN RemoveAll(SubSeq(s, Len(old) + 1, Len(s)), old)
    ELSE Head(s) \o RemoveAll(Tail(s), old)

\* sep.join(parts)
RECURSIVE Join(_, _)
Join(parts, sep) ==
    IF parts = <<>> THEN ""
    ELSE IF Len(parts) = 1 THEN parts[1]
    ELSE parts[1] \o sep \o Join(Tail(parts), sep)

\* Lines 207 and 214-216: a tool call that returned.
tool_call_succeeded(parts, remaining, tool_name, args_str, tool_result) ==
    [parts |-> Append(parts, "Tool " \o tool_name \o " result: " \o tool_result),
     remaining |->
         Strip(RemoveAll(remaining, "TOOL_CALL: " \o tool_name \o "(" \o args_str \o ")"))]

\* A variant of tool_call_failed that leaves no fragment for the failed call.
tool_call_failed_silent(parts, remaining, tool_name, message) ==
    [parts |-> parts, remaining |-> remaining]

\* Lines 218-220: "except Exception as e" around a tool call.
tool_call_failed(parts, remaining, tool_name, message) ==
    [parts |-> Append(parts, "Error executing " \o tool_name \o ": " \o message),
     remaining |-> remaining]

\* A variant of unknown_tool that leaves no fragment.
unknown_tool_skipped(parts, remaining, tool_name) == [parts |-> parts, remaining |-> remaining]

\* Lines 226-227: the name is not in self.tools.
unknown_tool(parts, remaining, tool_name) ==
    [parts |-> Append(parts, "Unknown tool: " \o tool_name), remaining |-> remaining]

\* A variant of no_tool_calls that returns the text in lower case.
no_tool_calls_lowered(response) == Lower(response)

\* Lines 192-194: the text _parse_and_execute_tool_calls returns without matches.
no_tool_calls(response) == response

\* Lines 229-233: the text _parse_and_execute_tool_calls returns after the loop.
combine_response(response, remaining, parts) ==
    IF remaining # "" /\ remaining # response
    THEN remaining \o "\n\n" \o Join(parts, "\n")
    ELSE Join(parts, "\n")

\* _is_tool_metadata
is_tool_metadata(text) ==
    StartsWith(text, "ToolCallRequestData") \/ StartsWith(text, "ToolCallResultData")

\* Line 136: the text _process_with_native_tools returns.
native_response(response_parts) ==
    IF response_parts # <<>> THEN Join(response_parts, "") ELSE "No response generated"

\* A variant of _handle_dev_command in which every command empties the
\* short-term memory.
handle_dev_command_always_clears(cmd, stm) == ""

\* _handle_dev_command: the short-term memory afterwards ("!clear" empties it).
handle_dev_command(cmd, stm) == IF Strip(Lower(cmd)) = "!clear" THEN "" ELSE stm

(***************************************************************************)
(* State.                                                                  *)
(***************************************************************************)
VARIABLES
    tpc,          \* TerminalTool.execute: "idle", "offer", "confirm", "done"
    command,      \* its argument
    risk_level,   \* the risk level shown with the confirmation prompt
    tresult,      \* what the call returned or raised
    shellLog,     \* the commands passed to _execute_command
    trashCalls,   \* the number of calls of _safe_delete_files
    lastInput,    \* the outcome of the last input() of the call
    lastPrompt,   \* the prompt it answered: "offer" or "confirm"
    nPrompts,     \* the number of input() calls of the call
    disk,         \* the files at their own paths
    trash,        \* the entries of the trash directory
    moved,        \* the last call of safe_delete_files: its matches, its
                  \* environment and its result
    stdinClosed,  \* standard input reached its end for good
    short_term_cap,     \* MemoryManager.short_term_cap
    short_term_memory,  \* MemoryManager.short_term_memory
    long_term_memory,   \* MemoryManager.long_term_memory
    long_term_file,     \* the file at MemoryManager.long_term_path
    memOp,              \* the MemoryManager method the last step called, and
    memRaised,          \* whether it raised
    user_input,         \* process_user_input: its argument
    full_response,      \* the text it printed and stored as the agent's response
    apc,                \* BasicAgent.run: "input" (blocked in input("You: ")),
                        \* "show_prompt", "model", "tools", "tool_wait", "act_wait",
                        \* "stopped"
    supports_native_tools,  \* BasicAgent.supports_native_tools
    dev_enabled,        \* BasicAgent.dev_mode.enabled
    memory_context,     \* process_user_input: memory_context
    response,           \* _parse_and_execute_tool_calls: response
    matches,            \* its matches, <<tool_name, args_str>> pairs
    idx,                \* the index of the match its loop is at
    result_parts,       \* its result_parts
    remaining_response, \* its remaining_response
    response_parts,     \* _process_with_native_tools: response_parts
    rounds,             \* the tool-calling rounds of the llm.act call
    nMessages,          \* the messages llm.act passed to on_message
    stdout,             \* the lines process_user_input and run printed this turn
    raised              \* the exception that left process_user_input, "" if none

fvars == <<disk, trash, moved>>

tvars ==
    <<tpc, command, risk_level, tresult, shellLog, trashCalls, lastInput, lastPrompt, nPrompts,
      fvars>>

mvars ==
    <<short_term_cap, short_term_memory, long_term_memory, long_term_file, memOp, memRaised>>

avars ==
    <<apc, supports_native_tools, dev_enabled, memory_context, response, matches, idx,
      result_parts, remaining_response, response_parts, rounds, nMessages, stdout, raised>>

vars == <<tvars, stdinClosed, mvars, user_input, full_response, avars>>

\* Commands given to TerminalTool.execute.
TerminalCommands ==
    {"ls -la", "rm a.txt", "rm -rf /", "mv a b", "echo x > f",
     "rm -rf /tmp/test", "rm file.txt", "chmod 777 /etc/passwd; mv a b",
     "dd if=/dev/zero of=/tmp/test", "cat /etc/hosts", "echo hello", "ps aux",
     "find . -name '*.log' -mtime +7 -exec rm {} ;",
     "find . -exec rm {} +",
     "find . -name 'x' -mtime +1 -exec rm",
     "find /farm -name '*.log' -mtime +7 -exec mv {} /old ;",
     "ls | xargs rm "}

\* input(): a closed standard input raises EOFError; an EOFError may close it
\* (a pipe or a file) or not (Ctrl-D at a terminal).
Readable(inp) == stdinClosed => inp = EOFError

ReadInput(inp) ==
    /\ Readable(inp)
    /\ stdinClosed' \in (IF inp = EOFError THEN BOOLEAN ELSE {stdinClosed})

\* safe_delete_files has not been called.
NoMove == [matched |-> <<>>, find |-> "", platform |-> "", utility |-> FALSE,
           unmovable |-> {}, result |-> NoResult]

\* No call of TerminalTool.execute is in progress.
ToolIdle ==
    /\ tpc = "idle"
    /\ command = ""
    /\ risk_level = ""
    /\ tresult = NoResult
    /\ shellLog = <<>>
    /\ trashCalls = 0
    /\ lastInput = NoInput
    /\ lastPrompt = "none"
    /\ nPrompts = 0

TerminalInit ==
    /\ ToolIdle
    /\ disk = {}
    /\ trash = {}
    /\ moved = NoMove

\* MemoryManager.__init__ on a missing or an empty long-term file.
MemoryInit(cap) ==
    /\ short_term_cap = cap
    /\ short_term_memory = ""
    /\ long_term_file \in {NoFile, File("")}
    /\ long_term_memory = EmptyDict
    /\ memOp = "none"
    /\ memRaised = FALSE

\* The effect of a step of TerminalTool.execute on its state.
TerminalStep(cmd, st) ==
    /\ tpc' = st.pc
    /\ command' = cmd
    /\ risk_level' = st.risk
    /\ tresult' = st.result
    /\ shellLog' = IF st.ran THEN Append(shellLog, cmd) ELSE shellLog
    /\ trashCalls' = IF st.trashed THEN trashCalls + 1 ELSE trashCalls
    /\ UNCHANGED fvars

\* TerminalTool.execute(command) is called.
TerminalEnter(cmd, env) ==
    /\ TerminalStep(cmd, execute(cmd, env))
    /\ lastInput' = NoInput
    /\ lastPrompt' = "none"
    /\ nPrompts' = 0

\* A direct call of TerminalTool.execute.
TerminalCall ==
    /\ tpc = "idle"
    /\ \E cmd \in TerminalCommands, env \in ShellEnv : TerminalEnter(cmd, env)
    /\ UNCHANGED <<stdinClosed, mvars, user_input, full_response, avars>>

\* The user answers the safer-alternative prompt.
OfferRespond ==
    /\ tpc = "offer"
    /\ nPrompts < MaxPrompts
    /\ \E inp \in PromptInputs, tenv \in TrashEnv :
         /\ ReadInput(inp)
         /\ TerminalStep(command, find_rm_input(command, inp, tenv))
         /\ lastInput' = inp
    /\ lastPrompt' = "offer"
    /\ nPrompts' = nPrompts + 1
    /\ UNCHANGED <<mvars, user_input, full_response, avars>>

\* The user answers the confirmation prompt.
ConfirmRespond ==
    /\ tpc = "confirm"
    /\ nPrompts < MaxPrompts
    /\ \E inp \in PromptInputs, env \in ShellEnv :
         /\ ReadInput(inp)
         /\ TerminalStep(command, confirm_input(command, risk_level, inp, env))
         /\ lastInput' = inp
    /\ lastPrompt' = "confirm"
    /\ nPrompts' = nPrompts + 1
    /\ UNCHANGED <<mvars, user_input, full_response, avars>>

(***************************************************************************)
(* TerminalTool.execute called directly, as the safety tests do.           *)
(***************************************************************************)
\* No agent: the tool and the memory manager are used on their own.
NoAgent ==
    /\ apc = "stopped"
    /\ supports_native_tools = FALSE
    /\ dev_enabled = FALSE
    /\ memory_context = ""
    /\ response = ""
    /\ matches = <<>>
    /\ idx = 0
    /\ result_parts = <<>>
    /\ remaining_response = ""
    /\ response_parts = <<>>
    /\ rounds = 0
    /\ nMessages = 0
    /\ stdout = <<>>
    /\ raised = ""

InitTerminal ==
    /\ TerminalInit
    /\ stdinClosed = FALSE
    /\ MemoryInit(DefaultCap)
    /\ long_term_file = NoFile
    /\ user_input = ""
    /\ full_response = ""
    /\ NoAgent

NextTerminal ==
    \/ TerminalCall
    \/ OfferRespond
    \/ ConfirmRespond

SpecTerminal == InitTerminal /\ [][NextTerminal]_vars

(***************************************************************************)
(* The prompts of TerminalTool.execute with no bound on their number: both *)
(* "while True" loops ask again for as long as the answers are not         *)
(* understood.  The count of input() calls stops at MaxPrompts.            *)
(***************************************************************************)
Counted(n) == IF n < MaxPrompts THEN n + 1 ELSE n

\* Lines 165-185: input() of the safer-alternative loop returns or raises.
OfferAnswer ==
    /\ tpc = "offer"
    /\ \E inp \in PromptInputs, tenv \in TrashEnv :
         /\ ReadInput(inp)
         /\ TerminalStep(command, find_rm_input(command, inp, tenv))
         /\ lastInput' = inp
    /\ lastPrompt' = "offer"
    /\ nPrompts' = Counted(nPrompts)
    /\ UNCHANGED <<mvars, user_input, full_response, avars>>

\* Lines 104-119: input() of the confirmation loop returns or raises.
ConfirmAnswer ==
    /\ tpc = "confirm"
    /\ \E inp \in PromptInputs, env \in ShellEnv :
         /\ ReadInput(inp)
         /\ TerminalStep(command, confirm_input(command, risk_level, inp, env))
         /\ lastInput' = inp
    /\ lastPrompt' = "confirm"
    /\ nPrompts' = Counted(nPrompts)
    /\ UNCHANGED <<mvars, user_input, full_response, avars>>

NextNegotiator ==
    \/ TerminalCall
    \/ OfferAnswer
    \/ ConfirmAnswer

\* The user's side: an answer that ends the loop that reads it (a choice of the
\* menu, yes or no, the end or the interruption of the input) takes the call
\* from the safer-alternative prompt to the confirmation prompt or to its
\* outcome, and from the confirmation prompt to its outcome.  Such an answer is
\* possible at every prompt, and one comes in the end.
LeavesPrompt == tpc \in {"offer", "confirm"} /\ tpc' \in {"confirm", "done"}

SpecNegotiator == InitTerminal /\ [][NextNegotiator]_vars /\ WF_tpc(LeavesPrompt)

(***************************************************************************)
(* MemoryManager called directly, as the memory tests do.                  *)
(***************************************************************************)
\* The caps of the short-term memory, 1..MaxCap (config.validate: positive).
MaxCap == 24

MemInputs == {"a", "My name is \\wW!", "my name is Al"}
MemResponses == {"", "bcd"}

InitMemory ==
    /\ TerminalInit
    /\ stdinClosed = FALSE
    /\ \E cap \in 1..MaxCap : MemoryInit(cap)
    /\ user_input = ""
    /\ full_response = ""
    /\ NoAgent

\* memory.update_memory(user_input, agent_response)
UpdateMemory ==
    /\ \E u \in MemInputs, r \in MemResponses, env \in FileEnv :
         LET m == update_memory(short_term_memory, short_term_cap, long_term_memory,
                                long_term_file, u, r, env)
         IN  /\ short_term_memory' = m.stm
             /\ long_term_memory' = m.ltm
             /\ long_term_file' = m.file
             /\ memRaised' = m.raised
             /\ user_input' = u
             /\ full_response' = r
    /\ memOp' = "update_memory"
    /\ UNCHANGED <<tvars, stdinClosed, short_term_cap, avars>>

\* memory.clear_short_term()
ClearShortTerm ==
    /\ short_term_memory' = ""
    /\ memOp' = "clear_short_term"
    /\ memRaised' = FALSE
    /\ UNCHANGED <<tvars, stdinClosed, short_term_cap, long_term_memory, long_term_file,
                   user_input, full_response, avars>>

\* memory.clear_long_term(): unlink() removes the file or raises.
ClearLongTerm ==
    /\ long_term_memory' = EmptyDict
    /\ \E env \in {"ok", "denied"} :
         IF long_term_file.exists /\ env = "denied"
         THEN long_term_file' = long_term_file /\ memRaised' = TRUE
         ELSE long_term_file' = NoFile /\ memRaised' = FALSE
    /\ memOp' = "clear_long_term"
    /\ UNCHANGED <<tvars, stdinClosed, short_term_cap, short_term_memory,
                   user_input, full_response, avars>>

NextMemory ==
    \/ UpdateMemory
    \/ ClearShortTerm
    \/ ClearLongTerm

SpecMemory == InitMemory /\ [][NextMemory]_vars

(***************************************************************************)
(* The long-term store and its file: construction, assignment, saving      *)
(***************************************************************************)
\* Texts json.loads rejects.
CorruptedTexts == {"{bad", "{} x", "{\"a\": \"b\",}", "{\"a\": \"b"}

\* Texts of nothing but whitespace.
BlankTexts == {"", "  \n"}

\* What the path may hold before a manager is constructed on it.
StoreFiles ==
    {NoFile} \cup {File(t) : t \in CorruptedTexts \cup BlankTexts}
        \cup {File("{\"user_name\": \"Al\"}"), File(" { \"k\" :\"a\\\\b\\nc\" }\n")}

\* Mappings a client assigns to long_term_memory.
Mappings ==
    {EmptyDict,
     <<<<"test_key", "test_value">>>>,
     <<<<"user_name", "\\W">>>>,
     <<<<"k", "a\"b\nc/d\t">>, <<"user_name", "Al">>>>}

InitStore ==
    /\ TerminalInit
    /\ stdinClosed = FALSE
    /\ short_term_cap = DefaultCap
    /\ short_term_memory = ""
    /\ long_term_memory = EmptyDict
    /\ long_term_file \in StoreFiles
    /\ memOp = "none"
    /\ memRaised = FALSE
    /\ user_input = ""
    /\ full_response = ""
    /\ NoAgent

\* A manager exists: the last construction on the path succeeded.
Constructed == memOp \notin {"none", "construct_unreadable"} /\ ~(memOp = "construct" /\ memRaised)

\* MemoryManager(path): when _load_long_term_memory raises no manager comes
\* to be.  memOp tells a file that could not be read from one that was read.
Construct ==
    /\ \E env \in {"ok", "denied"} :
         LET loaded == load_long_term_memory(long_term_file, env)
         IN  /\ memRaised' = loaded.raised
             /\ memOp' = IF long_term_file.exists /\ env = "denied"
                         THEN "construct_unreadable" ELSE "construct"
             /\ IF loaded.raised
                THEN UNCHANGED <<short_term_memory, long_term_memory>>
                ELSE /\ short_term_memory' = ""
                     /\ long_term_memory' = loaded.ltm
    /\ UNCHANGED <<tvars, stdinClosed, short_term_cap, long_term_file,
                   user_input, full_response, avars>>

\* memory_manager.long_term_memory = {...}
SetLongTerm ==
    /\ Constructed
    /\ \E d \in Mappings : long_term_memory' = d
    /\ memOp' = "set"
    /\ memRaised' = FALSE
    /\ UNCHANGED <<tvars, stdinClosed, short_term_cap, short_term_memory, long_term_file,
                   user_input, full_response, avars>>

\* memory_manager.save_long_term_memory()
SaveLongTerm ==
    /\ Constructed
    /\ \E env \in FileEnv :
         LET saved == save_long_term_memory(long_term_memory, long_term_file, env)
         IN  /\ long_term_file' = saved.file
             /\ memRaised' = saved.raised
    /\ memOp' = "save"
    /\ UNCHANGED <<tvars, stdinClosed, short_term_cap, short_term_memory, long_term_memory,
                   user_input, full_response, avars>>

NextStore ==
    \/ Construct
    \/ SetLongTerm
    \/ SaveLongTerm

SpecStore == InitStore /\ [][NextStore]_vars

(***************************************************************************)
(* safe_delete_files called on a file system                               *)
(***************************************************************************)
\* The most files one find matches.
MaxMatches == 2

\* The files at their paths; two of them have the same name.
SourceFiles == {"/d/a.log", "/e/a.log", "/d/b"}

\* What the trash holds before the first call.
InitialTrash ==
    {{}, {TrashEntry("a.log", "old")},
     {TrashEntry("a.log", "old"), TrashEntry("a_1.log", "older")}}

\* The lists of files a find may match: distinct files that are there.
Matches(files) ==
    {m \in UNION {[1..n -> files] : n \in 0..MaxMatches} :
        \A i, j \in DOMAIN m : m[i] = m[j] => i = j}

InitTrash ==
    /\ ToolIdle
    /\ disk = SourceFiles
    /\ trash \in InitialTrash
    /\ moved = NoMove
    /\ stdinClosed = FALSE
    /\ MemoryInit(DefaultCap)
    /\ long_term_file = NoFile
    /\ user_input = ""
    /\ full_response = ""
    /\ NoAgent

\* safe_delete_files(file_pattern)
SafeDelete ==
    /\ \E matched \in Matches(disk), find \in FindEnv, platform \in {"Darwin", "Linux"},
          utility \in BOOLEAN, unmovable \in SUBSET disk :
         LET w == [disk |-> disk, trash |-> trash, unmovable |-> unmovable,
                   platform |-> platform, utility |-> utility, count |-> 0]
             done == safe_delete_files_on(matched, find, w)
         IN  /\ (platform = "Linux" => ~utility)
             /\ disk' = done.w.disk
             /\ trash' = done.w.trash
             /\ moved' = [matched |-> matched, find |-> find, platform |-> platform,
                          utility |-> utility, unmovable |-> unmovable,
                          result |-> done.result]
    /\ UNCHANGED <<tpc, command, risk_level, tresult, shellLog, trashCalls, lastInput,
                   lastPrompt, nPrompts, stdinClosed, mvars, user_input, full_response, avars>>

NextTrash == SafeDelete

SpecTrash == InitTrash /\ [][NextTrash]_vars

(***************************************************************************)
(* BasicAgent: agent.py                                                    *)
(***************************************************************************)
\* The short-term cap of the agent's configuration.
AgentCap == 1

\* Messages llm.act may pass to on_message during one call.
MaxMessages == 1

\* agent.py line 133: max_prediction_rounds
max_prediction_rounds == 3

\* Lines typed at the "You: " prompt.
ChatLines == {"hi", " My name is \\w ", "!clear", "!help", " Quit ", "  "}
ChatInputs == {Line(t) : t \in ChatLines} \cup {EOFError, KeyboardInterrupt}

\* Lines typed at the "Show full prompt?" prompt of dev mode.
ShowPromptInputs == {Line("y"), Line(""), EOFError, KeyboardInterrupt}

\* Texts llm.respond returns in prompt-based mode.
ModelResponses ==
    {"Hello there",
     "Use TOOL_CALL list_files(path=\"x\")",
     "Listing TOOL_CALL: web_search(query=\"a\") done",
     "Sure. TOOL_CALL: nope(x=\"1\")",
     "Run TOOL_CALL: terminal(command=\"rm a\")",
     "TOOL_CALL: nope(x=\"1\") then TOOL_CALL: read_file(path=\"f\")",
     "See TOOL_CALL:read_file(path=\"f\")",
     "TOOL_CALL: terminal(command=\"ls\")",
     "TOOL_CALL: terminal(command=\"find . -name 'x' -mtime +1 -exec rm {} +\")",
     "TOOL_CALL: list_files()",
     "TOOL_CALL: list_files(path=\"/a/b\")",
     "TOOL_CALL: read_file(path=\"a(1)\")",
     "TOOL_CALL: nope() TOOL_CALL: terminal(command=\"rm a\") TOOL_CALL: read_file(path=\"g\")"}

\* Messages llm.act passes to on_message: the text fragments of the content.
NativeMessages ==
    {<<"Hi">>, <<"ToolCallResultData(y)", "!">>, <<"A", "ToolCallRequestData(z)", "B">>}

\* Tool calls the model requests during llm.act: <<name, kwargs>>.
NativeToolRequests ==
    {<<"terminal", <<<<"command", "rm a">>>>>>,
     <<"read_file", <<<<"path", "f">>>>>>,
     <<"web_search", <<>>>>}

\* llm.act belongs to the LM Studio SDK: an exception a tool function raises
\* is either reported to the model, the call going on, or leaves act().
SdkPolicies == {"report_to_model", "propagate"}

\* _detect_tool_capability on the outcome of get_model_info.
ModelInfos == {"trained", "untrained", "no_key", "lookup_fails"}
\* A variant of _detect_tool_capability that takes a model for tool-trained
\* unless its metadata say otherwise.
detect_tool_capability_default_true(info) == info # "untrained"

detect_tool_capability(info) == info = "trained"

\* A variant of on_message that keeps every fragment.
on_message_unfiltered(parts, fragments) == parts \o fragments

\* Lines 104-126: on_message appends the fragments that are not tool metadata.
RECURSIVE on_message(_, _)
on_message(parts, fragments) ==
    IF fragments = <<>> THEN parts
    ELSE on_message(IF is_tool_metadata(Head(fragments)) THEN parts
                    ELSE Append(parts, Head(fragments)),
                    Tail(fragments))

\* A variant of process_exception in which run() does not catch AgentError.
process_exception_agent_error_fatal(exc, message) ==
    CASE exc = "UserCancellationError" ->
            [lines |-> <<"Operation cancelled by user.">>, raised |-> "", pc |-> "input"]
      [] exc = "ToolError" ->
            [lines |-> <<"Tool error: " \o message>>, raised |-> "", pc |-> "input"]
      [] exc \notin {"UserCancellationError", "ToolError"} /\ IsException(exc) ->
            [lines |-> <<"Agent error: Error processing input: " \o message>>,
             raised |-> "AgentError", pc |-> "stopped"]
      [] OTHER ->
            [lines |-> <<"\\nGoodbye!">>, raised |-> "KeyboardInterrupt", pc |-> "stopped"]

\* Lines 89-94 of process_user_input and 443-452 of run: what an exception
\* leaving the try body of process_user_input leads to.
process_exception(exc, message) ==
    CASE exc = "UserCancellationError" ->
            [lines |-> <<"Operation cancelled by user.">>, raised |-> "", pc |-> "input"]
      [] exc = "ToolError" ->
            [lines |-> <<"Tool error: " \o message>>, raised |-> "", pc |-> "input"]
      [] exc \notin {"UserCancellationError", "ToolError"} /\ IsException(exc) ->
            [lines |-> <<"Agent error: Error processing input: " \o message>>,
             raised |-> "AgentError", pc |-> "input"]
      [] OTHER ->
            [lines |-> <<"\\nGoodbye!">>, raised |-> "KeyboardInterrupt", pc |-> "stopped"]

\* Lines 201-227: one pass of the loop over the matches, for a registered tool
\* whose call ended with result r.
tool_call_result(parts, remaining, tool_name, args_str, r) ==
    IF r.kind = "return"
    THEN tool_call_succeeded(parts, remaining, tool_name, args_str, r.value)
    ELSE tool_call_failed(parts, remaining, tool_name, r.value)

\* A variant of caught_per_call that lets ToolError through to process_user_input.
caught_per_call_but_tool_errors(r) ==
    r.kind = "raise" /\ IsException(r.exc) /\ r.exc # "ToolError"

\* Line 218: "except Exception" catches the exception of a tool call.
caught_per_call(r) == r.kind = "raise" /\ IsException(r.exc)

\* BasicAgent.__init__
AgentInit ==
    /\ apc = "input"
    /\ \E info \in ModelInfos : supports_native_tools = detect_tool_capability(info)
    /\ dev_enabled \in BOOLEAN
    /\ memory_context = ""
    /\ response = ""
    /\ matches = <<>>
    /\ idx = 0
    /\ result_parts = <<>>
    /\ remaining_response = ""
    /\ response_parts = <<>>
    /\ rounds = 0
    /\ nMessages = 0
    /\ stdout = <<>>
    /\ raised = ""

Init ==
    /\ TerminalInit
    /\ stdinClosed = FALSE
    /\ MemoryInit(AgentCap)
    /\ long_term_file = NoFile
    /\ user_input = ""
    /\ full_response = ""
    /\ AgentInit

\* The state of the tool between calls.
TerminalIdle ==
    /\ tpc' = "idle"
    /\ command' = ""
    /\ risk_level' = ""
    /\ tresult' = NoResult
    /\ lastInput' = NoInput
    /\ lastPrompt' = "none"
    /\ nPrompts' = 0

\* No call of the tool is in progress.
TerminalReset ==
    /\ TerminalIdle
    /\ shellLog' = <<>>
    /\ trashCalls' = 0
    /\ UNCHANGED fvars

\* The locals of _parse_and_execute_tool_calls and of _process_with_native_tools.
loopvars == <<response, matches, idx, result_parts, remaining_response>>
actvars == <<response_parts, rounds, nMessages>>

\* _parse_and_execute_tool_calls and _process_with_native_tools are not
\* running: their locals do not exist.
NoLocals ==
    /\ response' = ""
    /\ matches' = <<>>
    /\ idx' = 0
    /\ result_parts' = <<>>
    /\ remaining_response' = ""
    /\ response_parts' = <<>>
    /\ rounds' = 0
    /\ nMessages' = 0

\* The state of a turn as process_user_input starts.
TurnReset ==
    /\ TerminalReset
    /\ NoLocals
    /\ full_response' = ""
    /\ raised' = ""

\* run, lines 431-435 and 443-448: quit/exit/bye, Ctrl-C or end of input at
\* the "You: " prompt end the loop with the farewell.
UserLeaves ==
    /\ apc = "input"
    /\ \E inp \in ChatInputs :
         /\ ReadInput(inp)
         /\ \/ /\ inp.kind # "line"
               /\ stdout' = <<"\\nGoodbye!">>
               /\ user_input' = user_input
            \/ /\ inp.kind = "line"
               /\ Lower(Strip(inp.text)) \in {"quit", "exit", "bye"}
               /\ stdout' = <<"Goodbye!">>
               /\ user_input' = Strip(inp.text)
    /\ apc' = "stopped"
    /\ memOp' = "none"
    /\ memRaised' = FALSE
    /\ full_response' = ""
    /\ raised' = ""
    /\ UNCHANGED <<tvars, short_term_cap, short_term_memory, long_term_memory, long_term_file,
                   supports_native_tools, dev_enabled, memory_context, loopvars, actvars>>

\* run, lines 437-438: an empty line is skipped.
EmptyInput ==
    /\ apc = "input"
    /\ \E inp \in ChatInputs :
         /\ ReadInput(inp)
         /\ inp.kind = "line"
         /\ Strip(inp.text) = ""
    /\ UNCHANGED <<tvars, mvars, user_input, full_response, avars>>

\* A line that process_user_input is called with.
IsTurnInput(inp) ==
    /\ inp.kind = "line"
    /\ Strip(inp.text) # ""
    /\ Lower(Strip(inp.text)) \notin {"quit", "exit", "bye"}

\* process_user_input, lines 50-52: a dev command is handled and the turn is over.
DevCommand ==
    /\ apc = "input"
    /\ dev_enabled
    /\ \E inp \in ChatInputs :
         /\ ReadInput(inp)
         /\ IsTurnInput(inp)
         /\ StartsWith(Strip(inp.text), "!")
         /\ user_input' = Strip(inp.text)
         /\ short_term_memory' = handle_dev_command(Strip(inp.text), short_term_memory)
         /\ memOp' = IF Strip(Lower(Strip(inp.text))) = "!clear" THEN "clear_short_term"
                     ELSE "none"
    /\ TurnReset
    /\ stdout' = <<>>
    /\ memRaised' = FALSE
    /\ UNCHANGED <<short_term_cap, long_term_memory, long_term_file, apc,
                   supports_native_tools, dev_enabled, memory_context>>

\* process_user_input, lines 55-75: the context is built; dev mode then asks
\* whether to show the prompt, otherwise the model is invoked.
StartTurn ==
    /\ apc = "input"
    /\ \E inp \in ChatInputs :
         /\ ReadInput(inp)
         /\ IsTurnInput(inp)
         /\ ~(dev_enabled /\ StartsWith(Strip(inp.text), "!"))
         /\ user_input' = Strip(inp.text)
    /\ memory_context' = get_memory_context(short_term_memory, long_term_memory)
    /\ apc' = IF dev_enabled THEN "show_prompt" ELSE "model"
    /\ TurnReset
    /\ stdout' = <<>>
    /\ memOp' = "none"
    /\ memRaised' = FALSE
    /\ UNCHANGED <<short_term_cap, short_term_memory, long_term_memory, long_term_file,
                   supports_native_tools, dev_enabled>>

\* _should_show_prompt: any answer, or an interruption, leads on to the model.
ShowPromptAnswer ==
    /\ apc = "show_prompt"
    /\ \E inp \in ShowPromptInputs : ReadInput(inp)
    /\ apc' = "model"
    /\ UNCHANGED <<tvars, mvars, user_input, full_response, supports_native_tools, dev_enabled,
                   memory_context, response, matches, idx, result_parts, remaining_response,
                   response_parts, rounds, nMessages, stdout, raised>>

\* Lines 84-87 of process_user_input and the return to run: the response is
\* printed and stored; a MemoryError of update_memory becomes an AgentError.
FinishTurn(text) ==
    /\ full_response' = text
    /\ \E env \in FileEnv :
         LET m == update_memory(short_term_memory, short_term_cap, long_term_memory,
                                long_term_file, user_input, text, env)
             failed == process_exception("MemoryError", "Failed to save long-term memory: err")
         IN  /\ short_term_memory' = m.stm
             /\ long_term_memory' = m.ltm
             /\ long_term_file' = m.file
             /\ memRaised' = m.raised
             /\ stdout' = Append(stdout, "Agent Response: " \o text)
                              \o (IF m.raised THEN failed.lines ELSE <<>>)
             /\ raised' = IF m.raised THEN failed.raised ELSE ""
    /\ memOp' = "update_memory"
    /\ apc' = "input"
    /\ NoLocals
    /\ memory_context' = ""
    /\ UNCHANGED <<short_term_cap, user_input, supports_native_tools, dev_enabled>>

\* An exception leaves the try body of process_user_input.
TurnRaises(exc, message) ==
    LET handled == process_exception(exc, message)
    IN  /\ stdout' = stdout \o handled.lines
        /\ raised' = handled.raised
        /\ apc' = handled.pc
        /\ memOp' = "none"
        /\ memRaised' = FALSE
        /\ NoLocals
        /\ memory_context' = ""
        /\ UNCHANGED <<short_term_cap, short_term_memory, long_term_memory, long_term_file,
                       user_input, full_response, supports_native_tools, dev_enabled>>

\* Exceptions llm.respond and llm.act raise on their own.
ModelExceptions == {"LMStudioError", "KeyboardInterrupt"}

\* Line 170 or 129: the call of the model raises.
ModelFails ==
    /\ apc = "model"
    /\ \E exc \in ModelExceptions : TurnRaises(exc, "model call failed")
    /\ UNCHANGED <<tvars, stdinClosed>>

\* Lines 170-197: llm.respond returns and the tool calls are extracted; with
\* none, the response is the result.
ModelResponds ==
    /\ apc = "model"
    /\ ~supports_native_tools
    /\ \E r \in ModelResponses :
         LET found == findall_tool_calls(r, 1)
         IN  IF found = <<>>
             THEN FinishTurn(no_tool_calls(r))
             ELSE /\ response' = r
                  /\ matches' = found
                  /\ apc' = "tools"
                  /\ idx' = 1
                  /\ result_parts' = <<>>
                  /\ remaining_response' = r
                  /\ UNCHANGED <<mvars, user_input, full_response, supports_native_tools,
                                 dev_enabled, memory_context, actvars, stdout, raised>>
    /\ UNCHANGED <<tvars, stdinClosed>>

\* The loop of line 199 is at a match.
AtMatch == apc = "tools" /\ idx <= Len(matches)
tool_name == matches[idx][1]
args_str == matches[idx][2]

\* One pass of the loop ended without an exception leaving it.
NextMatch(step) ==
    /\ result_parts' = step.parts
    /\ remaining_response' = step.remaining
    /\ idx' = idx + 1
    /\ apc' = "tools"
    /\ UNCHANGED <<mvars, user_input, full_response, supports_native_tools, dev_enabled,
                   memory_context, response, matches, actvars, stdout, raised>>

\* Lines 201-220: the call of a registered tool ended with r; an exception that
\* "except Exception" does not catch leaves process_user_input.
CallOutcome(r) ==
    IF r.kind = "raise" /\ ~caught_per_call(r)
    THEN TurnRaises(r.exc, r.value)
    ELSE NextMatch(tool_call_result(result_parts, remaining_response, tool_name, args_str, r))

\* Lines 226-227: the name is not registered.
UnknownToolCall ==
    /\ AtMatch
    /\ tool_name \notin AVAILABLE_TOOLS
    /\ NextMatch(unknown_tool(result_parts, remaining_response, tool_name))
    /\ UNCHANGED <<tvars, stdinClosed>>

\* Lines 201-225 for a tool that asks the user nothing: the call returns or
\* raises at once (TypeError when the arguments do not bind).
ToolCall ==
    /\ AtMatch
    /\ tool_name \in AVAILABLE_TOOLS
    /\ LET args == parse_tool_arguments(args_str)
       IN  /\ ~(tool_name = "terminal" /\ Binds(tool_name, args))
           /\ \E env \in ToolEnv :
                CallOutcome(IF Binds(tool_name, args) THEN tool_execute(tool_name, args, env)
                            ELSE BindError(tool_name))
    /\ UNCHANGED <<tvars, stdinClosed>>

\* Line 206 for the terminal tool: execute(command) is entered.
TerminalToolCall ==
    /\ AtMatch
    /\ tool_name = "terminal"
    /\ LET args == parse_tool_arguments(args_str)
       IN  /\ Binds(tool_name, args)
           /\ \E env \in ShellEnv : TerminalEnter(DictGet(args, "command"), env)
    /\ apc' = "tool_wait"
    /\ UNCHANGED <<stdinClosed, mvars, user_input, full_response, supports_native_tools,
                   dev_enabled, memory_context, loopvars, actvars, stdout, raised>>

\* Lines 207-220 for the terminal tool: execute(command) returned or raised.
ToolCallReturns ==
    /\ apc = "tool_wait"
    /\ tpc = "done"
    /\ CallOutcome(tresult)
    /\ TerminalReset
    /\ UNCHANGED stdinClosed

\* Lines 229-233, then 84-87: the loop is over.
FinishToolCalls ==
    /\ apc = "tools"
    /\ idx > Len(matches)
    /\ FinishTurn(combine_response(response, remaining_response, result_parts))
    /\ UNCHANGED <<tvars, stdinClosed>>

\* llm.act is running.
InAct == apc = "model" /\ supports_native_tools

\* A variant of llm.act that ignores max_prediction_rounds.
round_allowed_always(n) == TRUE

\* llm.act(..., max_prediction_rounds=3): a further round of tool calls is
\* made only while fewer rounds than the maximum were made.
round_allowed(n) == n < max_prediction_rounds

\* Lines 104-126: llm.act passes a message to on_message.
ActMessage ==
    /\ InAct
    /\ nMessages < MaxMessages
    /\ \E fragments \in NativeMessages : response_parts' = on_message(response_parts, fragments)
    /\ nMessages' = nMessages + 1
    /\ UNCHANGED <<tvars, stdinClosed, mvars, user_input, full_response, apc,
                   supports_native_tools, dev_enabled, memory_context, loopvars, rounds,
                   stdout, raised>>

\* llm.act got the outcome r of a tool function: a return value goes to the
\* model, an exception goes to the model or leaves act().
ActOutcome(r) ==
    \E policy \in SdkPolicies :
        IF r.kind = "raise" /\ (policy = "propagate" \/ ~IsException(r.exc))
        THEN TurnRaises(r.exc, r.value)
        ELSE /\ apc' = "model"
             /\ rounds' = rounds + 1
             /\ UNCHANGED <<mvars, user_input, full_response, supports_native_tools,
                            dev_enabled, memory_context, loopvars, response_parts, nMessages,
                            stdout, raised>>

\* Lines 256-257: llm.act calls the function of a tool that asks the user nothing.
ActToolCall ==
    /\ InAct
    /\ round_allowed(rounds)
    /\ \E request \in NativeToolRequests, env \in ToolEnv :
         /\ ~(request[1] = "terminal" /\ Binds(request[1], request[2]))
         /\ ActOutcome(IF Binds(request[1], request[2])
                       THEN tool_execute(request[1], request[2], env)
                       ELSE BindError(request[1]))
    /\ UNCHANGED <<tvars, stdinClosed>>

\* Lines 256-257 for the terminal tool.
ActTerminalCall ==
    /\ InAct
    /\ round_allowed(rounds)
    /\ \E request \in NativeToolRequests, env \in ShellEnv :
         /\ request[1] = "terminal"
         /\ Binds(request[1], request[2])
         /\ TerminalEnter(DictGet(request[2], "command"), env)
    /\ apc' = "act_wait"
    /\ UNCHANGED <<stdinClosed, mvars, user_input, full_response, supports_native_tools,
                   dev_enabled, memory_context, loopvars, actvars, stdout, raised>>

\* execute(command) returned or raised to llm.act.
ActToolReturns ==
    /\ apc = "act_wait"
    /\ tpc = "done"
    /\ ActOutcome(tresult)
    /\ TerminalReset
    /\ UNCHANGED stdinClosed

\* Lines 136 and 84-87: llm.act returned.
ActEnds ==
    /\ InAct
    /\ FinishTurn(native_response(response_parts))
    /\ UNCHANGED <<tvars, stdinClosed>>

Next ==
    \/ UserLeaves
    \/ EmptyInput
    \/ DevCommand
    \/ StartTurn
    \/ ShowPromptAnswer
    \/ ModelFails
    \/ ModelResponds
    \/ UnknownToolCall
    \/ ToolCall
    \/ TerminalToolCall
    \/ OfferRespond
    \/ ConfirmRespond
    \/ ToolCallReturns
    \/ FinishToolCalls
    \/ ActMessage
    \/ ActToolCall
    \/ ActTerminalCall
    \/ ActToolReturns
    \/ ActEnds

Spec == Init /\ [][Next]_vars

(***************************************************************************)
(* Properties of the confirmation negotiator.                              *)
(***************************************************************************)
\* The responses as the specification names them.
Affirmative(inp) == inp.kind = "line" /\ Strip(Lower(inp.text)) \in {"yes", "y"}
Negative(inp) == inp.kind = "line" /\ Strip(Lower(inp.text)) \in {"no", "n"}
CancelChoice(inp) == inp.kind = "line" /\ Strip(Lower(inp.text)) \in {"c", "cancel"}
Interrupted(inp) == inp.kind \in {"EOFError", "KeyboardInterrupt"}
PromptAnswered == nPrompts' = nPrompts + 1

\* C1: for a destructive command, _execute_command is invoked only in the step
\* that reads an affirmative response (yes/y) at the confirmation prompt; a
\* negative response (no/n) there ends the call with UserCancellationError and
\* leaves the primitive uninvoked.
C1_ExecutedOnlyAfterYes ==
    [][ /\ (is_destructive_command(command') /\ shellLog' # shellLog)
            => (tpc = "confirm" /\ PromptAnswered /\ Affirmative(lastInput'))
        /\ (tpc = "confirm" /\ PromptAnswered /\ Negative(lastInput'))
            => (tpc' = "done" /\ tresult' = UserCancelled /\ shellLog' = shellLog)
      ]_vars

\* A find+rm command executed after the safer-alternative prompt and an
\* affirmative answer at the confirmation prompt.
C1_Witness ==
    /\ tpc = "done"
    /\ is_destructive_command(command)
    /\ find_match(command)
    /\ lastPrompt = "confirm"
    /\ Affirmative(lastInput)
    /\ shellLog = <<command>>

\* C2: once the confirmation prompt of a destructive command is answered
\* affirmatively, the call is over and _execute_command has been invoked
\* exactly once, with the original command.
C2_YesExecutesExactlyOnce ==
    (lastPrompt = "confirm" /\ Affirmative(lastInput))
        => /\ tpc = "done"
           /\ shellLog = <<command>>
           /\ \E env \in ShellEnv : tresult = execute_command(command, env)

\* "rm -rf /" executed by the last answer allowed: details or unrecognised
\* responses came before the affirmative one.
C2_Witness ==
    /\ tpc = "done"
    /\ command = "rm -rf /"
    /\ nPrompts = MaxPrompts
    /\ Affirmative(lastInput)
    /\ shellLog = <<"rm -rf /">>

\* C3: choosing cancel (c/cancel) at the safer-alternative prompt ends the
\* negotiation cancelled, with UserCancellationError: no confirmation prompt,
\* no execution.
C3_OfferCancelCancels ==
    (lastPrompt = "offer" /\ CancelChoice(lastInput))
        => (tpc = "done" /\ tresult = UserCancelled /\ shellLog = <<>>)

\* C4: an interruption (EOFError, KeyboardInterrupt) at either prompt ends the
\* negotiation cancelled: nothing further is asked, nothing is executed.
C4_InterruptCancels ==
    Interrupted(lastInput)
        => (tpc = "done" /\ tresult = UserCancelled /\ shellLog = <<>>)

(***************************************************************************)
(* Properties of the short-term memory.                                    *)
(***************************************************************************)
\* C6: for every cap >= 1 the short-term memory never exceeds the cap, and an
\* update_memory call leaves the concatenation of the old memory and the new
\* interaction when it fits, its last cap characters when it does not.
C6_ShortTermWithinCap ==
    /\ [](short_term_cap >= 1 /\ Len(short_term_memory) <= short_term_cap)
    /\ [][ memOp' = "update_memory" =>
             LET concatenation ==
                     short_term_memory \o "\nUser: " \o user_input' \o "\nAgent: "
                         \o full_response'
                 n == Len(concatenation)
             IN  short_term_memory' =
                     IF n > short_term_cap
                     THEN SubSeq(concatenation, n - short_term_cap + 1, n)
                     ELSE concatenation
         ]_vars

\* An update that truncated: the memory is full, ends with the newest response
\* and starts in the middle of the text before it.
C6_Witness ==
    /\ memOp = "update_memory"
    /\ short_term_cap = 20
    /\ Len(short_term_memory) = short_term_cap
    /\ full_response = "bcd"
    /\ IsAt(short_term_memory, short_term_cap - 2, "bcd")
    /\ Head(short_term_memory) # "\n"

(***************************************************************************)
(* Properties of the dispatch loop.                                        *)
(***************************************************************************)
Last(seq) == IF seq = <<>> THEN "" ELSE seq[Len(seq)]
Waiting == apc \in {"tool_wait", "act_wait"}
ToolErrorRaised(r) == r.kind = "raise" /\ r.exc = "ToolError"
Farewells == {"Goodbye!", "\\nGoodbye!"}

\* C5: when the user cancels a destructive command invoked as a tool call, in
\* native and in prompt-based mode alike, the cancellation reaches
\* process_user_input, which prints 'Operation cancelled by user.' and goes back
\* to the prompt: no tool-error fragment, no AgentError.  (In native mode the
\* exception passes through llm.act first; a step in which llm.act keeps it is
\* not counted against the program.)
C5_CancellationReachesDispatchLoop ==
    [][ (Waiting /\ tpc = "done" /\ tresult = UserCancelled /\ apc' # apc)
            => \/ /\ apc' = "input"
                  /\ stdout' = Append(stdout, "Operation cancelled by user.")
                  /\ raised' = ""
               \/ /\ apc = "act_wait"
                  /\ apc' = "model"
                  /\ stdout' = stdout
                  /\ raised' = ""
      ]_vars

\* C7: a ToolError raised by a tool call is, in prompt-based mode, caught for
\* that call and left as the fragment "Error executing <tool>: <message>", the
\* loop going on to the next match and the fragments being printed with the
\* response; in native mode it goes to the model or is printed by
\* process_user_input as "Tool error: <message>". It never becomes an
\* AgentError and never ends the session.
C7_ToolErrorIsPlainMessage ==
    [][ /\ (apc = "tool_wait" /\ tpc = "done" /\ ToolErrorRaised(tresult) /\ apc' # apc)
            => /\ apc' = "tools"
               /\ idx' = idx + 1
               /\ result_parts' =
                      Append(result_parts,
                             "Error executing " \o matches[idx][1] \o ": " \o tresult.value)
               /\ raised' = ""
        /\ (AtMatch /\ matches[idx][1] \in AVAILABLE_TOOLS \ {"terminal"} /\ idx' # idx)
            => /\ apc' = "tools"
               /\ raised' = ""
               /\ LET args == parse_tool_arguments(matches[idx][2])
                      failures ==
                          IF Binds(matches[idx][1], args)
                          THEN {r \in {tool_execute(matches[idx][1], args, env) :
                                           env \in ToolEnv} : ToolErrorRaised(r)}
                          ELSE {BindError(matches[idx][1])}
                  IN  \/ /\ Binds(matches[idx][1], args)
                         /\ Len(result_parts') = Len(result_parts) + 1
                         /\ StartsWith(Last(result_parts'),
                                       "Tool " \o matches[idx][1] \o " result: ")
                      \/ \E r \in failures :
                           result_parts' =
                               Append(result_parts,
                                      "Error executing " \o matches[idx][1] \o ": " \o r.value)
        /\ (apc = "tools" /\ idx > Len(matches) /\ apc' # apc)
            => /\ apc' = "input"
               /\ \A i \in DOMAIN result_parts : Contains(full_response', result_parts[i])
               /\ stdout'[1] = "Agent Response: " \o full_response'
        /\ (apc = "act_wait" /\ tpc = "done" /\ ToolErrorRaised(tresult) /\ apc' # apc)
            => \/ apc' = "model" /\ raised' = "" /\ stdout' = stdout
               \/ /\ apc' = "input"
                  /\ raised' = ""
                  /\ stdout' = Append(stdout, "Tool error: " \o tresult.value)
      ]_vars

\* A turn of prompt-based mode is over: the timeout of the terminal call was
\* printed as the agent's response, nothing was raised.
C7_Witness ==
    /\ apc = "input"
    /\ ~supports_native_tools
    /\ raised = ""
    /\ full_response = "Error executing terminal: Command 'ls' timed out after 30 seconds"
    /\ stdout = <<"Agent Response: " \o full_response>>

\* C8: no exception raised while a turn is processed ends the loop of run():
\* an AgentError is printed and the loop is back at input("You: "); the loop
\* ends only on quit/exit/bye, KeyboardInterrupt or end of input, the farewell
\* being the last line printed.
C8_LoopEndsOnlyOnLeave ==
    [][ /\ (apc # "stopped" /\ apc' = "stopped")
            => /\ Last(stdout') \in Farewells
               /\ IF apc = "input"
                  THEN \/ Last(stdout') = "\\nGoodbye!"
                       \/ Lower(user_input') \in {"quit", "exit", "bye"}
                  ELSE raised' = "KeyboardInterrupt"
        /\ (raised' \notin {"", "KeyboardInterrupt"} /\ raised' # raised)
            => /\ apc' = "input"
               /\ raised' = "AgentError"
               /\ StartsWith(Last(stdout'), "Agent error: Error processing input: ")
        /\ (apc \notin {"input", "stopped"} /\ apc' = "input")
            => raised' \in {"", "AgentError"}
      ]_vars

\* The model call failed in a turn: the AgentError was reported and the loop
\* is at the prompt again.
C8_Witness ==
    /\ apc = "input"
    /\ raised = "AgentError"
    /\ stdout = <<"Agent error: Error processing input: model call failed">>

\* C9: in prompt-based mode a TOOL_CALL whose name is not registered leaves the
\* fragment "Unknown tool: <name>", raises nothing and ends nothing: the loop
\* goes on to the next match, so every match before the current one has its
\* fragment.
C9_UnknownToolFragment ==
    /\ [](apc \in {"tools", "tool_wait"} => Len(result_parts) = idx - 1)
    /\ [][ (AtMatch /\ matches[idx][1] \notin AVAILABLE_TOOLS /\ idx' # idx)
               => /\ result_parts' = Append(result_parts, "Unknown tool: " \o matches[idx][1])
                  /\ idx' = idx + 1
                  /\ apc' = "tools"
                  /\ matches' = matches
                  /\ raised' = ""
                  /\ stdout' = stdout
         ]_vars

\* After the unknown tool "nope", the read_file call of the same response was
\* executed.
C9_Witness ==
    /\ apc = "tools"
    /\ idx = 3
    /\ result_parts = <<"Unknown tool: nope", "Tool read_file result: data">>

\* The response without the text of its TOOL_CALL matches.
RECURSIVE WithoutInvocations(_, _)
WithoutInvocations(s, i) ==
    IF i > Len(s) THEN ""
    ELSE LET m == tool_call_match(s, i)
         IN  IF m.ok THEN WithoutInvocations(s, m.end + 1)
             ELSE Char(s, i) \o WithoutInvocations(s, i + 1)

Narrative(s) == Strip(WithoutInvocations(s, 1))

\* C10: for a response with at least one TOOL_CALL match and narrative text,
\* the returned text is the response with every matched invocation stripped,
\* followed by all the result fragments, whether the calls succeeded, failed or
\* named an unknown tool.
C10_NarrativeKept ==
    [][ (apc = "tools" /\ idx > Len(matches) /\ apc' = "input" /\ Narrative(response) # "")
            => full_response' = Narrative(response) \o "\n\n" \o Join(result_parts, "\n")
      ]_vars

(***************************************************************************)
(* Properties of the tool-call extractor.                                  *)
(***************************************************************************)
\* The text TOOL_CALL: name(key="value")
Invocation(name, key, value) ==
    "TOOL_CALL: " \o name \o "(" \o key \o "=\"" \o value \o "\")"

\* Quoted string values a model passes to a tool.
ArgumentValues == {"/a/b", "a(1)", "f", "ls", "rm a"}

\* The fragment the loop leaves for a call that ended with r.
FragmentOf(name, r) ==
    IF r.kind = "return" THEN "Tool " \o name \o " result: " \o r.value
    ELSE "Error executing " \o name \o ": " \o r.value

\* C11: a response TOOL_CALL: name(key="value") yields, for every registered
\* name and every quoted string value, exactly one invocation of that tool
\* with the argument mapping {key: value}.
C11_InvocationFromText ==
    [][ \A name \in AVAILABLE_TOOLS \ {"write_file"}, value \in ArgumentValues :
          LET key == CHOOSE k \in RequiredParams(name) : TRUE
          IN  (apc = "tools" /\ idx = 1 /\ response = Invocation(name, key, value)
               /\ <<apc, idx>>' # <<apc, idx>>)
                  => /\ Len(matches) = 1
                     /\ IF name = "terminal"
                        THEN apc' = "tool_wait" /\ command' = value
                        ELSE \E env \in ToolEnv :
                               result_parts' =
                                   <<FragmentOf(name, tool_execute(name, <<<<key, value>>>>, env))>>
      ]_vars

\* C12: for a model response with no TOOL_CALL: occurrence,
\* _parse_and_execute_tool_calls returns the text unchanged and invokes no
\* tool: the loop over matches is entered only for a text that holds
\* TOOL_CALL:, and the turn otherwise ends with the model's text as response.
C12_NoToolCallUnchanged ==
    [][ (apc = "model" /\ ~supports_native_tools)
            => /\ apc' = "tools" => Contains(response', "TOOL_CALL:")
               /\ (apc' = "input" /\ memOp' = "update_memory")
                    => /\ full_response' \in ModelResponses
                       /\ stdout'[1] = "Agent Response: " \o full_response'
                       /\ tpc' = "idle" /\ shellLog' = <<>> /\ trashCalls' = 0
                       /\ result_parts' = <<>>
               /\ \A r \in ModelResponses :
                    ~Contains(r, "TOOL_CALL:") => findall_tool_calls(r, 1) = <<>>
      ]_vars

\* The text without the colon ended the turn as it was.
C12_Witness ==
    /\ apc = "input"
    /\ ~supports_native_tools
    /\ memOp = "update_memory"
    /\ full_response = "Use TOOL_CALL list_files(path=\"x\")"
    /\ shellLog = <<>>

(***************************************************************************)
(* Properties of the risk classification.                                  *)
(***************************************************************************)
\* The command of the call has been classified.
Classified == risk_level # ""

\* Recursive root delete, raw block-device write, mkfs/format, shred,
\* chmod 777/000.
CatastrophicPatterns ==
    {"rm -rf /", "dd if=", "mkfs", "format", "shred", "chmod 777", "chmod 000"}

C14_RecursiveRemoveIsMedium ==
    (Classified /\ command \in {"rm -rf /tmp/x", "rm -rf /tmp/test", "mv a b"})
        => risk_level = "medium"

\* C15: a plain remove of a single file with no recursive flag is flagged
\* destructive and classified low.
C15_PlainRemoveIsLow ==
    (tpc # "idle" /\ command \in {"rm file.txt", "rm temp.txt"})
        => (is_destructive_command(command) /\ Classified /\ risk_level = "low")

\* C16: a command that is_destructive does not flag bypasses the confirmation
\* flow: execute asks nothing, cannot raise UserCancellationError and passes
\* the command to _execute_command exactly once.
C16_SafeCommandBypasses ==
    (tpc # "idle" /\ ~is_destructive_command(command))
        => /\ tpc = "done"
           /\ nPrompts = 0
           /\ lastPrompt = "none"
           /\ lastInput = NoInput
           /\ trashCalls = 0
           /\ shellLog = <<command>>
           /\ tresult # UserCancelled
           /\ \E env \in ShellEnv : tresult = execute_command(command, env)

\* "cat /etc/hosts" went straight to the shell.
C16_Witness ==
    /\ tpc = "done"
    /\ command = "cat /etc/hosts"
    /\ ~is_destructive_command(command)
    /\ shellLog = <<"cat /etc/hosts">>
    /\ tresult = Return("out")

\* A turn is being processed: memory_context holds what get_memory_context
\* returned when the turn began, and the stores have not changed since.
InTurn == apc \in {"show_prompt", "model", "tools", "tool_wait", "act_wait"}

\* C17: get_memory_context returns the empty string when both stores are empty,
\* contains a "Recent conversation:" block exactly when short-term memory is
\* non-empty, and contains an "Important information:" block exactly when the
\* long-term store is non-empty.
C17_MemoryContextSections ==
    InTurn =>
        /\ (memory_context = "")
               <=> (short_term_memory = "" /\ long_term_memory = EmptyDict)
        /\ Contains(memory_context, "Recent conversation:")
               <=> (short_term_memory # "")
        /\ Contains(memory_context, "Important information:")
               <=> (long_term_memory # EmptyDict)
        /\ (short_term_memory # "")
               => Contains(memory_context, short_term_memory)
        /\ \A i \in DOMAIN long_term_memory :
               Contains(memory_context, JsonEscape(long_term_memory[i][2]))

\* A turn that began with both stores non-empty.
C17_Witness ==
    /\ InTurn
    /\ short_term_memory # ""
    /\ long_term_memory # EmptyDict
    /\ Contains(memory_context, "Recent conversation:")
    /\ Contains(memory_context, "Important information:")

\* The store was saved without an error.
Saved == memOp = "save" /\ ~memRaised

\* C18: for every long-term mapping, save_long_term_memory followed by the
\* construction of a fresh MemoryManager on the same path yields a
\* long_term_memory identical to the saved mapping.
C18_SaveLoadRoundTrip ==
    [][(Saved /\ memOp' \in {"construct", "construct_unreadable"})
           => /\ load_long_term_memory(long_term_file, "ok")
                     = [ltm |-> long_term_memory, raised |-> FALSE]
              /\ (memOp' = "construct")
                     => (~memRaised' /\ long_term_memory' = long_term_memory)]_vars

\* A fresh manager loaded a saved mapping whose value has characters that
\* JSON escapes.
C18_Witness ==
    /\ memOp = "construct"
    /\ ~memRaised
    /\ long_term_memory = <<<<"k", "a\"b\nc/d\t">>, <<"user_name", "Al">>>>
    /\ long_term_file = File(json_dump_indent2(long_term_memory))

\* C19: on loading the long-term store, a missing file gives an empty store,
\* an empty or whitespace-only file gives an empty store, and malformed
\* content raises a MemoryError: no manager is constructed with a silently
\* emptied store.
C19_LoadOutcomes ==
    [][(memOp' = "construct")
           => /\ ~long_term_file.exists
                     => (~memRaised' /\ long_term_memory' = EmptyDict)
              /\ (long_term_file.exists /\ long_term_file.text \in BlankTexts)
                     => (~memRaised' /\ long_term_memory' = EmptyDict)
              /\ (long_term_file.exists /\ long_term_file.text \in CorruptedTexts)
                     => /\ memRaised'
                        /\ ~Constructed'
                        /\ UNCHANGED <<long_term_memory, long_term_file>>
              /\ (~memRaised' /\ long_term_memory' = EmptyDict)
                     => \/ ~long_term_file.exists
                        \/ Strip(long_term_file.text) \in {"", "{}"}]_vars

\* The construction on a corrupted file raised.
C19_Witness ==
    /\ memOp = "construct"
    /\ memRaised
    /\ long_term_file = File("{bad")

\* The word that follows the first "my name is " of a text, "" when there
\* is none.
RECURSIVE WordFrom(_, _)
WordFrom(s, i) == IF IsWord(Char(s, i)) THEN Char(s, i) \o WordFrom(s, i + 1) ELSE ""

IntroducedName(text) ==
    LET starts == {i \in 1..Len(text) : IsAt(Lower(text), i, "my name is ")}
    IN  IF starts = {} THEN ""
        ELSE WordFrom(text, (CHOOSE j \in starts : \A k \in starts : j <= k) + 11)

\* C20: after update_memory with a user input that contains "my name is X",
\* X a word, the long-term store holds user_name = X capitalised and the whole
\* store has been written to the long-term file.
C20_NameStoredAndFlushed ==
    (memOp = "update_memory" /\ IntroducedName(user_input) # "")
        => /\ DictHas(long_term_memory, "user_name")
           /\ DictGet(long_term_memory, "user_name") = Title(IntroducedName(user_input))
           /\ long_term_file = File(json_dump_indent2(long_term_memory))

\* The User:/Agent: pair of a turn.
TurnPair(input, text) == "\nUser: " \o input \o "\nAgent: " \o text

\* The last cap characters of a text.
LastPart(text, cap) ==
    IF Len(text) > cap THEN SubSeq(text, Len(text) - cap + 1, Len(text)) ELSE text

Relocated == disk \ disk'

\* The set of the files find matched.
MatchedFiles(call) == {call.matched[i] : i \in DOMAIN call.matched}

\* C22: safe_delete_files reports "Moved N file(s) to Trash" where N is exactly
\* the number of matched files that left their original paths, for any number
\* of matches and on every platform branch: a file that fails to move is not
\* counted and does not keep the others from being moved, and for a single
\* matched file that can be moved N = 1 and the file is gone from its path.
C22_CountIsFilesRelocated ==
    [][(moved'.find = "listed" /\ moved'.matched # <<>>)
           => /\ Relocated \subseteq MatchedFiles(moved')
              /\ moved'.result
                     = Return("Moved " \o Str(Cardinality(Relocated)) \o " file(s) to Trash")
              /\ \A f \in MatchedFiles(moved') :
                     (f \notin moved'.unmovable) => f \notin disk'
              /\ (Len(moved'.matched) = 1 /\ moved'.unmovable = {})
                     => /\ moved'.result = Return("Moved 1 file(s) to Trash")
                        /\ moved'.matched[1] \notin disk']_vars

\* C23: on the paths that do not use the trash utility, moving a file whose
\* name is taken in the trash never replaces the entry of that name: every
\* entry stays, and the file is stored under <stem>_<k><extension> for the
\* smallest k >= 1 whose name is free.
C23_NoTrashEntryReplaced ==
    [][(moved'.find = "listed" /\ ~moved'.utility)
           => /\ trash \subseteq trash'
              /\ \A e \in trash' \ trash :
                    /\ e.from \in Relocated
                    /\ \/ e.name = PathName(e.from) /\ e.name \notin TrashNames(trash)
                       \/ /\ PathName(e.from) \in TrashNames(trash)
                          /\ \E k \in 1..(Cardinality(trash) + 1) :
                               /\ e.name = PathStem(PathName(e.from)) \o "_" \o Str(k)
                                               \o PathSuffix(PathName(e.from))
                               /\ \A j \in 1..(k - 1) :
                                    (PathStem(PathName(e.from)) \o "_" \o Str(j)
                                        \o PathSuffix(PathName(e.from))) \in TrashNames(trash)]_vars

\* C24: with dev mode enabled, an input that starts with "!" is intercepted
\* before normal processing: the model is not invoked for it, no User:/Agent:
\* pair is appended, and the only change of memory is that of !clear, which
\* empties the short-term memory and leaves the long-term store as it was.
C24_DevCommandIntercepted ==
    [][/\ (apc = "input" /\ dev_enabled /\ apc' # "stopped" /\ StartsWith(user_input', "!"))
              => /\ apc' = "input"
                 /\ memOp' # "update_memory"
                 /\ full_response' = ""
                 /\ stdout' = <<>>
                 /\ nMessages' = 0
                 /\ long_term_memory' = long_term_memory
                 /\ long_term_file' = long_term_file
                 /\ short_term_memory'
                        = (IF Lower(user_input') = "!clear" THEN "" ELSE short_term_memory)
       /\ (dev_enabled /\ InTurn') => ~StartsWith(user_input', "!")
       /\ dev_enabled' = dev_enabled]_vars

\* !clear emptied the short-term memory of an agent whose long-term store
\* holds a name.
C24_Witness ==
    /\ dev_enabled
    /\ apc = "input"
    /\ user_input = "!clear"
    /\ memOp = "clear_short_term"
    /\ short_term_memory = ""
    /\ long_term_memory # EmptyDict

\* The command of the call was passed to the shell and the call is over.
ShellRan == tpc = "done" /\ shellLog # <<>>

\* C25: a shell command that runs into the 30-second timeout is reported as a
\* ToolError, never as another exception, and a command that exits with a
\* status other than 0 is returned as a result string and raises nothing.
C25_TimeoutIsToolError ==
    ShellRan =>
        /\ \E env \in ShellEnv : tresult = execute_command(command, env)
        /\ (tresult.kind = "raise" /\ tresult.exc # "KeyboardInterrupt")
               => tresult.exc = "ToolError"
        /\ execute_command(command, "timeout")
               = Raise("ToolError", "Command '" \o command \o "' timed out after 30 seconds")
        /\ execute_command(command, "nonzero") = Return("Command failed (exit code 1)")
        /\ Contains(tresult.value, "timed out") => tresult = execute_command(command, "timeout")

\* A command ran into the timeout.
C25_Witness ==
    /\ ShellRan
    /\ tresult = Raise("ToolError", "Command 'ls -la' timed out after 30 seconds")

\* A command exited with a status other than 0.
C25_NonZeroReturned ==
    /\ ShellRan
    /\ tresult = Return("Command failed (exit code 1)")

C27_ModeChosenOnce ==
    [][/\ supports_native_tools' = supports_native_tools
       /\ supports_native_tools \in {detect_tool_capability(info) : info \in ModelInfos}
       /\ detect_tool_capability("trained")
       /\ ~detect_tool_capability("untrained")
       /\ ~detect_tool_capability("no_key")
       /\ ~detect_tool_capability("lookup_fails")
       /\ (apc' \in {"tools", "tool_wait"} \/ response' # "" \/ matches' # <<>>)
              => ~supports_native_tools
       /\ (apc' = "act_wait" \/ rounds' > 0 \/ nMessages' > 0 \/ response_parts' # <<>>)
              => supports_native_tools]_vars

\* A tool-trained model is in a round of llm.act, a tool of its asking the user.
C27_Witness ==
    /\ supports_native_tools
    /\ apc = "act_wait"
    /\ rounds = 1

\* C28: after any sequence of MemoryManager operations that change the
\* long-term store (the name taken by update_memory, clear_long_term), the
\* file agrees with the store: a fresh MemoryManager on the same path loads a
\* mapping equal to long_term_memory.
C28_FileAgreesWithStore ==
    (memOp \in {"update_memory", "clear_long_term"})
        => load_long_term_memory(long_term_file, "ok")
               = [ltm |-> long_term_memory, raised |-> FALSE]

\* The step answers the safer-alternative prompt with the safe choice.
ChoosesSafe ==
    /\ tpc = "offer"
    /\ lastPrompt' = "offer"
    /\ nPrompts' = nPrompts + 1
    /\ find_rm_choice(lastInput') = "safe"

\* C29: choosing the safe path at the safer-alternative prompt ends the
\* negotiation with the outcome of the trash-based deletion (its result or its
\* ToolError): the confirmation prompt is not shown afterwards and the
\* original command is not passed to _execute_command.
C29_SafeChoiceEndsNegotiation ==
    [][ChoosesSafe
           => /\ tpc' = "done"
              /\ \E tenv \in TrashEnv : tresult' = safe_delete_files(tenv)
              /\ trashCalls' = trashCalls + 1
              /\ shellLog' = <<>>]_vars

\* The step answers the confirmation prompt with a line that is neither an
\* affirmative nor a negative response.
AsksAgain ==
    /\ tpc = "confirm"
    /\ lastPrompt' = "confirm"
    /\ nPrompts' = nPrompts + 1
    /\ lastInput'.kind = "line"
    /\ Strip(Lower(lastInput'.text)) \notin {"yes", "y", "no", "n"}

\* C30: at the confirmation prompt a "details" response, and any response
\* that is not recognised, only asks again: the call stays at the
\* confirmation prompt, nothing is executed or cancelled, and the command and
\* its risk level are unchanged.
C30_DetailsOnlyReprompts ==
    [][AsksAgain
           => /\ tpc' = "confirm"
              /\ command' = command
              /\ risk_level' = risk_level
              /\ tresult' = NoResult
              /\ shellLog' = shellLog
              /\ trashCalls' = trashCalls]_vars

\* The details were asked for and the prompt is shown again.
C30_Witness ==
    /\ tpc = "confirm"
    /\ lastPrompt = "confirm"
    /\ lastInput = Line("details")
    /\ command = "rm -rf /tmp/test"
    /\ risk_level = "high"
    /\ tresult = NoResult
    /\ shellLog = <<>>

\* The command is a find that removes through -exec: "find" comes before an
\* "-exec rm" whose rm is a word of its own.
FindRemovesViaExec(cmd) ==
    \E i, j \in 1..Len(cmd) :
        /\ IsAt(cmd, i, "find")
        /\ i < j
        /\ IsAt(cmd, j, "-exec rm")
        /\ (j + 8 > Len(cmd) \/ IsSpace(Char(cmd, j + 8)))

\* The safer alternative was offered, or taken, in the call.
Offered == tpc = "offer" \/ lastPrompt = "offer" \/ trashCalls > 0

\* C31: the safer alternative is offered only for a destructive command of the
\* find-then-remove-via-exec shape with a quoted -name pattern and an
\* -mtime +N filter; every other destructive command goes straight to the
\* confirmation prompt and never reaches the trash-based deletion.
C31_OfferOnlyForFindRemove ==
    /\ Offered => /\ is_destructive_command(command)
                  /\ FindRemovesViaExec(command)
                  /\ find_match(command)
    /\ (tpc # "idle" /\ is_destructive_command(command)
            /\ ~(FindRemovesViaExec(command) /\ find_match(command)))
           => (tpc \in {"confirm", "done"} /\ trashCalls = 0 /\ lastPrompt # "offer")

\* The text does not start with a prefix of the framework's tool-call metadata.
NotMetadata(text) ==
    /\ ~StartsWith(text, "ToolCallRequestData")
    /\ ~StartsWith(text, "ToolCallResultData")

\* The texts of a sequence one after the other.
RECURSIVE Concat(_)
Concat(parts) == IF parts = <<>> THEN "" ELSE Head(parts) \o Concat(Tail(parts))

C33_RankedCommandsAreFlagged ==
    (tpc # "idle" /\ classify_command_risk(command) \in {"medium", "high"})
        => /\ is_destructive_command(command)
           /\ (shellLog # <<>>)
                  => /\ lastPrompt = "confirm"
                     /\ get_user_confirmation(lastInput) = "True"

\* The match m of the response begins at position p: "TOOL_CALL:", white space,
\* the name and the parenthesised arguments.
MatchAt(text, p, m) ==
    \E k \in 0..2 :
        /\ AllSpace(text, p + 10, p + 9 + k)
        /\ IsAt(text, p + 10 + k, m[1] \o "(" \o m[2] \o ")")

\* The matches lie in the text from left to right.
InOrderOfOccurrence(text, ms) ==
    LET marks == {p \in 1..Len(text) : IsAt(text, p, "TOOL_CALL:")}
    IN  \A i, j \in DOMAIN ms :
            i < j => \E p, q \in marks : p < q /\ MatchAt(text, p, ms[i]) /\ MatchAt(text, q, ms[j])

\* The loop of _parse_and_execute_tool_calls is at a match not yet processed.
AtCall == apc \in {"tools", "tool_wait"} /\ idx <= Len(matches)

\* C34: in prompt-based mode the TOOL_CALL matches of a response are processed
\* one at a time in their order of occurrence, the i-th match leaving exactly
\* the i-th fragment, which names its tool; a call that fails, names an unknown
\* tool or is cancelled by the user leaves its fragment and the loop goes on to
\* the next match, so that the loop ends with one fragment per match.  (Only
\* KeyboardInterrupt, which is no Exception, leaves the loop early.)
C34_CallsInOrderOneFragmentEach ==
    [][/\ (apc \in {"tools", "tool_wait"})
            => /\ Len(result_parts) = idx - 1
               /\ idx <= Len(matches) + 1
       /\ (apc # "tools" /\ apc' = "tools" /\ idx' = 1)
            => InOrderOfOccurrence(response', matches')
       /\ (AtCall /\ apc' \in {"tools", "tool_wait"})
            => /\ matches' = matches
               /\ idx' \in {idx, idx + 1}
               /\ (idx' = idx + 1)
                     => /\ apc' = "tools"
                        /\ Len(result_parts') = idx
                        /\ SubSeq(result_parts', 1, idx - 1) = result_parts
                        /\ Contains(result_parts'[idx], matches[idx][1])
               /\ (idx' = idx) => result_parts' = result_parts
       /\ (AtCall /\ apc' \notin {"tools", "tool_wait"})
            => raised' = "KeyboardInterrupt"
       /\ (apc = "tools" /\ apc' = "input" /\ memOp' = "update_memory")
            => /\ Len(result_parts) = Len(matches)
               /\ \A i \in DOMAIN result_parts : Contains(full_response', result_parts[i])]_vars

\* An unknown name and a cancelled command were each followed by the next call,
\* and the last call of the response, which failed, left its fragment too.
C34_Witness ==
    /\ apc = "tools"
    /\ Len(matches) = 3
    /\ idx = 4
    /\ result_parts = <<"Unknown tool: nope",
                        "Error executing terminal: Operation cancelled by user.",
                        "Error executing read_file: File g not found">>

\* The step ends a turn in the UserCancellationError handler, in the ToolError
\* handler, or with AgentError raised.
TurnEndsWithoutSuccess ==
    /\ InTurn
    /\ apc' = "input"
    /\ \/ raised' = "AgentError"
       \/ /\ raised' = ""
          /\ stdout' # stdout
          /\ \/ Last(stdout') = "Operation cancelled by user."
             \/ StartsWith(Last(stdout'), "Tool error: ")

\* C35: a turn of process_user_input that ends in the UserCancellationError or
\* ToolError handler, or that raises AgentError, leaves short-term memory and
\* the long-term store (the mapping and its file) as they were.
C35_FailedTurnsLeaveMemoryUnchanged ==
    [][TurnEndsWithoutSuccess
           => /\ short_term_memory' = short_term_memory
              /\ long_term_memory' = long_term_memory
              /\ long_term_file' = long_term_file]_vars

\* TerminalTool.execute waits at one of its two prompts.
Prompting == tpc \in {"offer", "confirm"}

\* The input ended at the safer-alternative prompt and the confirmation prompt
\* is the next to read.
EndedAtOffer == tpc = "confirm" /\ lastPrompt = "offer" /\ lastInput = EOFError

\* C36: a call of TerminalTool.execute that is at a prompt reaches an outcome
\* (the command executed, the files moved to the trash, or the call cancelled)
\* once the user gives an understood answer or the input ends; and the end of
\* the input at a prompt leads to the cancelled outcome within two prompts: the
\* prompt that read it or the one after it ends the call with
\* UserCancellationError.
C36_NegotiatorTerminates ==
    /\ [](Prompting => <>(tpc = "done"))
    /\ [][(Prompting /\ lastInput' = EOFError)
              => \/ tpc' = "done" /\ tresult' = UserCancelled
                 \/ tpc = "offer" /\ tpc' = "confirm"]_vars
    /\ [][(EndedAtOffer /\ lastPrompt' = "confirm")
              => (tpc' = "done" /\ tresult' = UserCancelled)]_vars

====
